---- MODULE Spec2Model ----
(***************************************************************************)
(* Model of the RAG ingestion back end of Student-Document-Management:     *)
(*   - backend/app/rag_jobs.py      the job tracker (JobStore)             *)
(*   - backend/app/rag.py           RAGEngine.index_document and helpers   *)
(*   - backend/app/routers/*.py     the three ingestion triggers           *)
(*                                                                         *)
(* Python dicts are objects: the dict stored for a document id and the     *)
(* dict a caller received from get() are distinct places unless the code   *)
(* hands out the stored object itself.  `snap` says which object the       *)
(* caller holds: its own copy (held in snapRec) or the stored dict of a    *)
(* document id.  updated_at (time.time()) is not modelled: nothing in the  *)
(* program reads it.  The Vietnamese messages are written without their    *)
(* diacritics.  A message or an exception text is a tuple of its parts: an  *)
(* f-string appends the parts of what it interpolates.                     *)
(***************************************************************************)
EXTENDS Integers, Sequences, FiniteSets, TLC

(***************************************************************************)
(* Bounds of the model.                                                    *)
(***************************************************************************)
NumThreads == 2      \* writer threads of the lock-level specification
NumRuns == 2         \* ingestion runs of the pipeline specification
MaxTextLen == 1      \* length of the extracted texts that are enumerated

DocIds == {"d1", "d2"}
ThreadIds == {"t"}               \* conversation threads of POST /rag/stream
\* RAGEngine instances: the one of routers/quiz.py:37, and those get_engine
\* constructs (rag.py:750), named by the thread that runs the constructor; 0 is the
\* event loop running a handler whole
QuizEngineId == <<"quiz", 0>>
LoopEngineId == <<"rag", 0>>
EngineIds == {QuizEngineId} \cup {<<"rag", t>> : t \in 0 .. NumThreads}
Writers == 1 .. NumThreads
Runs == 1 .. NumRuns
NoThread == 0
NoRef == "none"
OwnCopy == "copy"

VARIABLES
    jobs,      \* JobStore._jobs: document id -> contents of its dict (Absent: no key)
    lock,      \* JobStore._lock: the writer holding it, or NoThread
    tpc,       \* writer thread -> position inside JobStore.update
    targ,      \* writer thread -> arguments of the update call in progress
    snap,      \* the dict last returned by get(): NoRef, OwnCopy, or a document id
               \* when it is the stored dict of that id itself
    snapRec,   \* contents of the caller's own dict (when snap = OwnCopy)
    serial,    \* history: document id -> record after the completed mutations, in lock order
    started,   \* history: the document ids start() has run for
    last,      \* history: the tracker operation performed by the last step
    engine,    \* rag._engine: "none" or "built"
    backend,   \* RAGSettings.store_backend
    rpc,       \* ingestion run -> position in the triggering code / index_document
    rin,       \* ingestion run -> [kind, doc]: kind "file" (upload, import: the bytes are
               \* at hand) or "url" (POST /rag/index: the file is downloaded)
    rlog,      \* history: ingestion run -> stages it wrote to the tracker, in order
    rres,      \* ingestion run -> outcome of index_document (return value or exception)
    rtext,     \* history: ingestion run -> the text _extract_text returned (None before)
    rcalls,    \* history: ingestion run -> the collaborators index_document has called
    store,     \* the vector store: set of chunk records
    table,     \* the rag_chunks table of SupabaseVectorStore: its rows, in insertion order
    svsLast,   \* history: the last call of SupabaseVectorStore, its arguments and result
    corpus,    \* the chunks the vector store of the engine holds, nearest to the query first
    qLast,     \* history: the last call of retrieve, its arguments and result
    chatMemory, \* routers/rag.py _chat_memory: thread id -> its list of entries (None: no key)
    model,     \* RAGEngine._model of each engine: None or the model instance it holds
    loaded,    \* history: the SentenceTransformer instances that were constructed
    cpc,       \* caller thread -> position inside get_engine / _emb_model
    cuse,      \* caller thread -> the engine and the model instance it was handed
    engineObj, \* rag._engine: None or the RAGEngine instance it refers to
    made       \* history: the RAGEngine instances get_engine has constructed

vars == <<jobs, lock, tpc, targ, snap, snapRec, serial, started, last,
          engine, backend, rpc, rin, rlog, rres, rtext, rcalls, store,
          table, svsLast, corpus, qLast, chatMemory, model, loaded, cpc, cuse,
          engineObj, made>>

trackerVars == <<jobs, lock, tpc, targ, snap, snapRec, serial, started, last>>
ingestVars == <<engine, backend, rpc, rin, rlog, rres, rtext, rcalls, store>>
libVars == <<table, svsLast>>
queryVars == <<corpus, qLast>>
callerVars == <<chatMemory, model, loaded, cpc, cuse>>
sessionVars == <<callerVars, engineObj, made>>

(***************************************************************************)
(* Optional[...] arguments: None is the empty set, a value v is {v}.       *)
(***************************************************************************)
None == {}
Some(v) == {v}
The(s) == CHOOSE x \in s : TRUE

Min(a, b) == IF a <= b THEN a ELSE b
Max(a, b) == IF a >= b THEN a ELSE b

(***************************************************************************)
(* Dicts.                                                                  *)
(***************************************************************************)
Absent == [absent |-> TRUE]
SetField(rec, f, v) == [x \in (DOMAIN rec) \cup {f} |-> IF x = f THEN v ELSE rec[x]]

Stages == {"upload", "chunking", "embedding", "storing", "indexed", "failed", "unknown"}
Terminal == {"failed", "indexed"}

\* rag_jobs.py:13-19  the dict literal assigned by start
FreshJob(d) ==
    [doc_id |-> d, stage |-> "upload", progress |-> 0, message |-> <<"Da nhan tep, chuan bi xu ly">>]

\* rag_jobs.py:40  the default of self._jobs.get(doc_id, {...})
Placeholder(d) ==
    [doc_id |-> d, stage |-> "unknown", progress |-> 0, message |-> <<"Khong co job">>]

\* rag_jobs.py:23  the default of setdefault
EmptyJob(d) == [doc_id |-> d]

(***************************************************************************)
(* JobStore (rag_jobs.py), on the mapping js: document id -> dict.         *)
(***************************************************************************)
\* rag_jobs.py:11-19
JobStoreStartMerge(js, d) ==
    IF js[d] # Absent
    THEN [js EXCEPT ![d] = SetField(SetField(@, "stage", "upload"), "progress", 0)]
    ELSE [js EXCEPT ![d] = FreshJob(d)]

JobStoreStart(js, d) == [js EXCEPT ![d] = FreshJob(d)]

\* rag_jobs.py:23  job = self._jobs.setdefault(doc_id, {"doc_id": doc_id})
SetDefault(js, d) == IF js[d] # Absent THEN js ELSE [js EXCEPT ![d] = EmptyJob(d)]

\* rag_jobs.py:27  int(max(0, min(100, progress)))
ClampNoUpper(p) == Max(0, p)

Clamp(p) == Max(0, Min(100, p))

\* rag_jobs.py:24-25
MergeStage(rec, stage) == IF stage = None THEN rec ELSE SetField(rec, "stage", The(stage))
\* rag_jobs.py:26-27
MergeProgress(rec, progress) ==
    IF progress = None THEN rec ELSE SetField(rec, "progress", Clamp(The(progress)))
\* rag_jobs.py:28-29
MergeMessage(rec, message) ==
    IF message = None THEN rec ELSE SetField(rec, "message", The(message))

\* rag_jobs.py:23-30  the whole body of update applied to one record
UpdatedRecord(rec, d, stage, progress, message) ==
    MergeMessage(MergeProgress(MergeStage(IF rec = Absent THEN EmptyJob(d) ELSE rec,
                                          stage), progress), message)

\* rag_jobs.py:21-30
JobStoreUpdate(js, d, stage, progress, message) ==
    [js EXCEPT ![d] = UpdatedRecord(@, d, stage, progress, message)]

\* rag_jobs.py:32-33
JobStoreFail(js, d, message) == JobStoreUpdate(js, d, Some("failed"), Some(100), Some(message))

\* rag_jobs.py:36  the message of success
DoneMessage == <<"Hoan tat lap chi muc">>

\* rag_jobs.py:35-36
JobStoreSuccess(js, d) == JobStoreUpdate(js, d, Some("indexed"), Some(100), Some(DoneMessage))

\* rag_jobs.py:40  the dict that self._jobs.get(doc_id, default) evaluates to
GetSource(js, d) == IF js[d] # Absent THEN js[d] ELSE Placeholder(d)

\* rag_jobs.py:40  the mapping after self._jobs.get(doc_id, default): get inserts nothing
JobsAfterGetInserting(js, d) == SetDefault(js, d)

JobsAfterGet(js, d) == js

\* rag_jobs.py:38-40  the object get returns: dict(...) builds a new dict
JobStoreGetAlias(js, d) ==
    IF js[d] # Absent THEN [ref |-> d, rec |-> Absent]
    ELSE [ref |-> OwnCopy, rec |-> GetSource(js, d)]

JobStoreGet(js, d) == [ref |-> OwnCopy, rec |-> GetSource(js, d)]

\* rag_jobs.py:39  `with self._lock` of get: the lock must be free
GetGuardNoLock(lk) == TRUE

GetGuard(lk) == lk = NoThread

\* the contents of the dict the caller of get holds
SnapValue == IF snap = OwnCopy THEN snapRec ELSE IF snap = NoRef THEN Absent ELSE jobs[snap]

(***************************************************************************)
(* Text: a string is a sequence of one-character strings.                  *)
(***************************************************************************)
Chars == {" ", "a"}
Punct == {".", "!", "?", ";", ":"}
IsSpace(c) == c = " "

RECURSIVE SeqsUpTo(_)
SeqsUpTo(n) ==
    IF n = 0 THEN {<<>>}
    ELSE LET shorter == SeqsUpTo(n - 1)
         IN  shorter \cup {Append(t, c) : t \in shorter, c \in Chars}
Texts == SeqsUpTo(MaxTextLen)

\* str.lstrip() and str.rstrip(): from the first, up to the last, character that is
\* not white space
LStrip(s) ==
    IF \A i \in 1 .. Len(s) : IsSpace(s[i]) THEN <<>>
    ELSE LET k == CHOOSE i \in 1 .. Len(s) :
                      ~IsSpace(s[i]) /\ \A j \in 1 .. i - 1 : IsSpace(s[j])
         IN  SubSeq(s, k, Len(s))
RStrip(s) ==
    IF \A i \in 1 .. Len(s) : IsSpace(s[i]) THEN <<>>
    ELSE LET k == CHOOSE i \in 1 .. Len(s) :
                      ~IsSpace(s[i]) /\ \A j \in i + 1 .. Len(s) : IsSpace(s[j])
         IN  SubSeq(s, 1, k)
\* str.strip()
Strip(s) == RStrip(LStrip(s))

\* rag.py:675  re.sub(r"\s+", " ", text): every run of white space becomes one space
RECURSIVE CollapseWs(_)
CollapseWs(s) ==
    LET Run(i) == IsSpace(s[i]) /\ IsSpace(s[i + 1])
    IN  IF ~(\E i \in 1 .. Len(s) - 1 : Run(i)) THEN s
        ELSE LET k == CHOOSE i \in 1 .. Len(s) - 1 :
                          Run(i) /\ \A j \in 1 .. i - 1 : ~Run(j)
             IN  SubSeq(s, 1, k) \o CollapseWs(LStrip(SubSeq(s, k + 1, Len(s))))

\* rag.py:680  re.split on whitespace that follows a sentence mark; the full-width
\* marks and the newline of the pattern cannot occur in a text over Chars.  cur is
\* the part of the sentence read so far, rest what follows it
RECURSIVE SplitSentences(_, _)
SplitSentences(rest, cur) ==
    LET whole == cur \o rest
        Cut(p) == IsSpace(whole[p]) /\ p > 1 /\ whole[p - 1] \in Punct
        after == Len(cur) + 1 .. Len(whole)
    IN  IF ~(\E p \in after : Cut(p)) THEN <<whole>>
        ELSE LET p == CHOOSE q \in after :
                          Cut(q) /\ \A j \in Len(cur) + 1 .. q - 1 : ~Cut(j)
             IN  <<SubSeq(whole, 1, p - 1)>>
                     \o SplitSentences(LStrip(SubSeq(whole, p, Len(whole))), <<>>)

\* rag.py:681  [s.strip() for s in sentences if s and s.strip()]
RECURSIVE NonBlank(_)
NonBlank(ss) ==
    IF ss = <<>> THEN <<>>
    ELSE IF Strip(Head(ss)) = <<>> THEN NonBlank(Tail(ss))
    ELSE <<Strip(Head(ss))>> \o NonBlank(Tail(ss))

\* " ".join(current)
RECURSIVE Join(_)
Join(parts) ==
    IF parts = <<>> THEN <<>>
    ELSE IF Len(parts) = 1 THEN parts[1]
    ELSE parts[1] \o <<" ">> \o Join(Tail(parts))

\* chunk[-n:] for n > 0
Suffix(s, n) == IF Len(s) <= n THEN s ELSE SubSeq(s, Len(s) - n + 1, Len(s))
\* cleaned[:n]
Prefix(s, n) == IF Len(s) <= n THEN s ELSE SubSeq(s, 1, n)

\* rag.py:687-701  flush_with_overlap on [chunks, current, len]
FlushWithOverlap(b, overlap) ==
    IF b.current = <<>> THEN b
    ELSE LET chunk == Strip(Join(b.current))
             chunks == IF chunk # <<>> THEN Append(b.chunks, chunk) ELSE b.chunks
         IN  IF overlap > 0 /\ chunks # <<>>
             THEN [chunks |-> chunks, current |-> <<Suffix(chunk, overlap)>>,
                   len |-> Len(Suffix(chunk, overlap))]
             ELSE [chunks |-> chunks, current |-> <<>>, len |-> 0]

\* rag.py:703-710  the packing loop
RECURSIVE Pack(_, _, _, _)
Pack(sentences, b, size, overlap) ==
    IF sentences = <<>> THEN b
    ELSE LET sent == Head(sentences)
         IN  IF b.len + Len(sent) + 1 <= size
             THEN Pack(Tail(sentences),
                       [b EXCEPT !.current = Append(@, sent), !.len = @ + Len(sent) + 1],
                       size, overlap)
             ELSE LET f == FlushWithOverlap(b, overlap)
                  IN  Pack(Tail(sentences),
                           [f EXCEPT !.current = Append(@, sent), !.len = Len(sent)],
                           size, overlap)

\* rag.py:35-36  RAGSettings defaults
ChunkSizeSetting == 850
ChunkOverlapSetting == 150
\* rag.py:672  the floor of chunk_size
MinChunkSize == 200

\* rag.py:666-716  _split_text with the settings given
SplitTextWith(text, chunkSizeSetting, overlapSetting) ==
    LET size == Max(MinChunkSize, chunkSizeSetting)
        overlap == Max(0, Min(overlapSetting, size \div 2))
        cleaned == Strip(CollapseWs(text))
        sentences == NonBlank(SplitSentences(cleaned, <<>>))
        packed == Pack(sentences, [chunks |-> <<>>, current |-> <<>>, len |-> 0],
                       size, overlap)
        chunks == FlushWithOverlap(packed, overlap).chunks
    IN  IF cleaned = <<>> THEN <<>>
        ELSE IF chunks = <<>> THEN <<Prefix(cleaned, size)>>
        ELSE chunks

SplitText(text) == SplitTextWith(text, ChunkSizeSetting, ChunkOverlapSetting)

\* rag.py:140  `not text.strip()`
IsBlankOnlyEmpty(text) == text = <<>>

IsBlank(text) == Strip(text) = <<>>

(***************************************************************************)
(* Files handed to index_document: an extension, whether the bytes are a   *)
(* well-formed document of that format, and the text they hold.            *)
(***************************************************************************)
Extensions == {"txt", "pdf", "docx", "bin"}
Files == [ext : Extensions, valid : BOOLEAN, text : Texts]

\* rag.py:472-487 with 650-664: the parsers raise on bytes they cannot read
ExtractText(f) ==
    IF f.ext \in {"pdf", "docx"} /\ ~f.valid
    THEN [ok |-> FALSE, err |-> <<"Extract">>, text |-> <<>>]
    ELSE [ok |-> TRUE, err |-> <<>>, text |-> f.text]

(***************************************************************************)
(* Initial state: an empty tracker, no engine, nothing indexed.            *)
(***************************************************************************)
NoArgs == [id |-> "", stage |-> None, progress |-> None, message |-> None]
NoOp == [op |-> "none", id |-> "", pre |-> <<>>]
NoCall == [op |-> "none"]
NoUse == [engine |-> <<"", 0>>, model |-> None]

Init ==
    /\ jobs = [d \in DocIds |-> Absent]
    /\ lock = NoThread
    /\ tpc = [t \in Writers |-> "idle"]
    /\ targ = [t \in Writers |-> NoArgs]
    /\ snap = NoRef
    /\ snapRec = Absent
    /\ serial = [d \in DocIds |-> Absent]
    /\ started = {}
    /\ last = NoOp
    /\ engine = "none"
    /\ backend \in {"chroma", "supabase"}
    /\ rpc = [r \in Runs |-> "new"]
    /\ rin = [r \in Runs |-> [kind |-> "", doc |-> ""]]
    /\ rlog = [r \in Runs |-> <<>>]
    /\ rres = [r \in Runs |-> [kind |-> "none"]]
    /\ rtext = [r \in Runs |-> None]
    /\ rcalls = [r \in Runs |-> {}]
    /\ store = {}
    /\ table = <<>>
    /\ svsLast = NoCall
    /\ corpus = <<>>
    /\ qLast = NoCall
    /\ chatMemory = [t \in ThreadIds |-> None]
    /\ model = [e \in EngineIds |-> None]
    /\ loaded = {}
    /\ cpc = [t \in Writers |-> "idle"]
    /\ cuse = [t \in Writers |-> NoUse]
    /\ engineObj = None
    /\ made = {}

(***************************************************************************)
(* Arguments the callers of the tracker are enumerated over.               *)
(***************************************************************************)
UpdateCalls ==
    { [stage |-> None, progress |-> None, message |-> None],
      [stage |-> None, progress |-> Some(-5), message |-> None],
      [stage |-> None, progress |-> Some(150), message |-> None],
      [stage |-> Some("embedding"), progress |-> Some(40), message |-> Some(<<"m">>)] }
FailMessages == {<<"boom">>}
TamperFields == {"stage", "progress", "message"}
Tamper(f) == IF f = "progress" THEN -1 ELSE IF f = "stage" THEN "tampered" ELSE <<"tampered">>

\* a statement that rebinds self._jobs[d] leaves the old dict to whoever still holds it
KeepOld(d) ==
    IF snap = d
    THEN snap' = OwnCopy /\ snapRec' = jobs[d]
    ELSE UNCHANGED <<snap, snapRec>>

(***************************************************************************)
(* The tracker called from one caller at a time: each JobStore method is   *)
(* one step (every method body runs under self._lock).                     *)
(***************************************************************************)
\* rag_jobs.py:11-19
ApiStart(d) ==
    /\ jobs' = JobStoreStart(jobs, d)
    /\ KeepOld(d)
    /\ serial' = [serial EXCEPT ![d] = FreshJob(d)]
    /\ started' = started \cup {d}
    /\ last' = [op |-> "start", id |-> d, pre |-> jobs[d]]
    /\ UNCHANGED <<lock, tpc, targ>>
    /\ UNCHANGED ingestVars
    /\ UNCHANGED libVars
    /\ UNCHANGED queryVars
    /\ UNCHANGED sessionVars

\* rag_jobs.py:21-30
ApiUpdate(d, stage, progress, message) ==
    /\ jobs' = JobStoreUpdate(jobs, d, stage, progress, message)
    /\ serial' = [serial EXCEPT ![d] = UpdatedRecord(@, d, stage, progress, message)]
    /\ last' = [op |-> "write", id |-> d, pre |-> <<>>]
    /\ UNCHANGED <<lock, tpc, targ, started, snap, snapRec>>
    /\ UNCHANGED ingestVars
    /\ UNCHANGED libVars
    /\ UNCHANGED queryVars
    /\ UNCHANGED sessionVars

\* rag_jobs.py:32-33
ApiFail(d, m) ==
    /\ jobs' = JobStoreFail(jobs, d, m)
    /\ serial' = [serial EXCEPT ![d] = UpdatedRecord(@, d, Some("failed"), Some(100), Some(m))]
    /\ last' = [op |-> "write", id |-> d, pre |-> <<>>]
    /\ UNCHANGED <<lock, tpc, targ, started, snap, snapRec>>
    /\ UNCHANGED ingestVars
    /\ UNCHANGED libVars
    /\ UNCHANGED queryVars
    /\ UNCHANGED sessionVars

\* rag_jobs.py:35-36
ApiSuccess(d) ==
    /\ jobs' = JobStoreSuccess(jobs, d)
    /\ serial' = [serial EXCEPT ![d] = UpdatedRecord(@, d, Some("indexed"), Some(100),
                                                      Some(DoneMessage))]
    /\ last' = [op |-> "write", id |-> d, pre |-> <<>>]
    /\ UNCHANGED <<lock, tpc, targ, started, snap, snapRec>>
    /\ UNCHANGED ingestVars
    /\ UNCHANGED libVars
    /\ UNCHANGED queryVars
    /\ UNCHANGED sessionVars

\* rag_jobs.py:38-40, called by routers/rag.py:153-156 (GET /rag/jobs/{doc_id})
ApiGet(d) ==
    /\ GetGuard(lock)
    /\ LET g == JobStoreGet(jobs, d)
       IN  snap' = g.ref /\ snapRec' = g.rec
    /\ jobs' = JobsAfterGet(jobs, d)
    /\ last' = [op |-> "get", id |-> d, pre |-> jobs[d]]
    /\ UNCHANGED <<lock, tpc, targ, serial, started>>
    /\ UNCHANGED ingestVars
    /\ UNCHANGED libVars
    /\ UNCHANGED queryVars
    /\ UNCHANGED sessionVars

\* the caller of get assigns to a field of the dict it was given
CallerMutate(f) ==
    /\ snap # NoRef
    /\ IF snap = OwnCopy
       THEN snapRec' = SetField(snapRec, f, Tamper(f)) /\ jobs' = jobs
       ELSE jobs' = [jobs EXCEPT ![snap] = SetField(@, f, Tamper(f))] /\ snapRec' = snapRec
    /\ last' = [op |-> "mutate", id |-> "", pre |-> <<>>]
    /\ UNCHANGED <<snap, lock, tpc, targ, serial, started>>
    /\ UNCHANGED ingestVars
    /\ UNCHANGED libVars
    /\ UNCHANGED queryVars
    /\ UNCHANGED sessionVars

TrackerNext ==
    \/ \E d \in DocIds : ApiStart(d)
    \/ \E d \in DocIds, c \in UpdateCalls : ApiUpdate(d, c.stage, c.progress, c.message)
    \/ \E d \in DocIds, m \in FailMessages : ApiFail(d, m)
    \/ \E d \in DocIds : ApiSuccess(d)
    \/ \E d \in DocIds : ApiGet(d)
    \/ \E f \in TamperFields : CallerMutate(f)

TrackerSpec == Init /\ [][TrackerNext]_vars

(***************************************************************************)
(* The tracker called from several threads, at the grain of the lock:      *)
(* update runs statement by statement inside `with self._lock`.            *)
(***************************************************************************)
\* rag_jobs.py:11-19  start: one assignment under the lock
WStart(t, d) ==
    /\ tpc[t] = "idle"
    /\ lock = NoThread
    /\ jobs' = JobStoreStart(jobs, d)
    /\ KeepOld(d)
    /\ serial' = [serial EXCEPT ![d] = FreshJob(d)]
    /\ started' = started \cup {d}
    /\ UNCHANGED <<lock, tpc, targ, last>>
    /\ UNCHANGED ingestVars
    /\ UNCHANGED libVars
    /\ UNCHANGED queryVars
    /\ UNCHANGED sessionVars

\* rag_jobs.py:22-23  update: take the lock, setdefault
UpdateEnter(t, d, stage, progress, message) ==
    /\ tpc[t] = "idle"
    /\ lock = NoThread
    /\ lock' = t
    /\ jobs' = SetDefault(jobs, d)
    /\ tpc' = [tpc EXCEPT ![t] = "stage"]
    /\ targ' = [targ EXCEPT ![t] = [id |-> d, stage |-> stage, progress |-> progress,
                                    message |-> message]]
    /\ UNCHANGED <<snap, snapRec, serial, started, last>>
    /\ UNCHANGED ingestVars
    /\ UNCHANGED libVars
    /\ UNCHANGED queryVars
    /\ UNCHANGED sessionVars

\* rag_jobs.py:21
WUpdate(t, d, stage, progress, message) == UpdateEnter(t, d, stage, progress, message)
\* rag_jobs.py:32-33
WFail(t, d, m) == UpdateEnter(t, d, Some("failed"), Some(100), Some(m))
\* rag_jobs.py:35-36
WSuccess(t, d) == UpdateEnter(t, d, Some("indexed"), Some(100), Some(DoneMessage))

\* rag_jobs.py:24-25
WSetStage(t) ==
    /\ tpc[t] = "stage"
    /\ jobs' = [jobs EXCEPT ![targ[t].id] = MergeStage(@, targ[t].stage)]
    /\ tpc' = [tpc EXCEPT ![t] = "progress"]
    /\ UNCHANGED <<lock, targ, snap, snapRec, serial, started, last>>
    /\ UNCHANGED ingestVars
    /\ UNCHANGED libVars
    /\ UNCHANGED queryVars
    /\ UNCHANGED sessionVars

\* rag_jobs.py:26-27
WSetProgress(t) ==
    /\ tpc[t] = "progress"
    /\ jobs' = [jobs EXCEPT ![targ[t].id] = MergeProgress(@, targ[t].progress)]
    /\ tpc' = [tpc EXCEPT ![t] = "message"]
    /\ UNCHANGED <<lock, targ, snap, snapRec, serial, started, last>>
    /\ UNCHANGED ingestVars
    /\ UNCHANGED libVars
    /\ UNCHANGED queryVars
    /\ UNCHANGED sessionVars

\* rag_jobs.py:28-30  the last statements, then the lock is released
WSetMessage(t) ==
    /\ tpc[t] = "message"
    /\ jobs' = [jobs EXCEPT ![targ[t].id] = MergeMessage(@, targ[t].message)]
    /\ tpc' = [tpc EXCEPT ![t] = "idle"]
    /\ lock' = NoThread
    /\ serial' = [serial EXCEPT ![targ[t].id] =
                      UpdatedRecord(@, targ[t].id, targ[t].stage, targ[t].progress,
                                    targ[t].message)]
    /\ targ' = [targ EXCEPT ![t] = NoArgs]
    /\ UNCHANGED <<snap, snapRec, started, last>>
    /\ UNCHANGED ingestVars
    /\ UNCHANGED libVars
    /\ UNCHANGED queryVars
    /\ UNCHANGED sessionVars

\* rag_jobs.py:38-40  get from the polling thread
RGet(d) ==
    /\ GetGuard(lock)
    /\ LET g == JobStoreGet(jobs, d)
       IN  snap' = g.ref /\ snapRec' = g.rec
    /\ jobs' = JobsAfterGet(jobs, d)
    /\ UNCHANGED <<lock, tpc, targ, serial, started, last>>
    /\ UNCHANGED ingestVars
    /\ UNCHANGED libVars
    /\ UNCHANGED queryVars
    /\ UNCHANGED sessionVars

LockNext ==
    \/ \E t \in Writers, d \in DocIds : WStart(t, d)
    \/ \E t \in Writers, d \in DocIds, c \in UpdateCalls :
           WUpdate(t, d, c.stage, c.progress, c.message)
    \/ \E t \in Writers, d \in DocIds, m \in FailMessages : WFail(t, d, m)
    \/ \E t \in Writers, d \in DocIds : WSuccess(t, d)
    \/ \E t \in Writers : WSetStage(t)
    \/ \E t \in Writers : WSetProgress(t)
    \/ \E t \in Writers : WSetMessage(t)
    \/ \E d \in DocIds : RGet(d)

LockSpec == Init /\ [][LockNext]_vars

(***************************************************************************)
(* Ingestion: the three triggers and RAGEngine.index_document.  Every      *)
(* call of the tracker is one step (it runs under the tracker's lock);     *)
(* statements that touch no shared object are joined to the tracker or     *)
(* store call that follows them.                                           *)
(***************************************************************************)
Triggers == {"upload", "import", "index_now"}

\* documents.py:181 and imports.py:264
UploadUpdate ==
    [stage |-> Some("upload"), progress |-> Some(5), message |-> Some(<<"Dang tai len">>)]
\* rag.py:136
ChunkingUpdate ==
    [stage |-> Some("chunking"), progress |-> Some(10), message |-> Some(<<"Dang tach doan (chunking)">>)]
\* rag.py:152
EmbeddingUpdateBackToUpload(n) ==
    [stage |-> Some("upload"), progress |-> Some(40),
     message |-> Some(<<"Dang tao embedding cho", n, "doan">>)]

EmbeddingUpdate(n) ==
    [stage |-> Some("embedding"), progress |-> Some(40),
     message |-> Some(<<"Dang tao embedding cho", n, "doan">>)]
\* rag.py:220
StoringUpdateLowProgress ==
    [stage |-> Some("storing"), progress |-> Some(30), message |-> Some(<<"Dang luu embeddings vao vector store">>)]

StoringUpdate ==
    [stage |-> Some("storing"), progress |-> Some(70), message |-> Some(<<"Dang luu embeddings vao vector store">>)]

\* rag.py:144
NoTextMessage == <<"Khong trich xuat duoc noi dung">>
\* rag.py:194
EmbedFailedMessage(e) == <<"Tao embedding that bai:">> \o e
\* rag.py:211 and rag.py:236
StoreFailedMessage(bk, e) ==
    IF bk = "chroma" THEN <<"Luu vao Chroma that bai:">> \o e
    ELSE <<"Luu vao Supabase that bai:">> \o e
\* documents.py:209, imports.py:288, routers/rag.py:186
CatchMessage(kind, e) ==
    IF kind = "url" THEN <<"Index loi:">> \o e ELSE <<"Index that bai:">> \o e

\* what the store call raises: rag.py:205 collection.add, and vector_store.py:61-63
\* where add_chunks wraps the error of the insert
AddError(bk, e) ==
    IF bk = "chroma" THEN e ELSE <<"Supabase insert into rag_chunks failed:">> \o e

\* rag.py:214 (bare re-raise) and rag.py:239 (wrapped error naming the document)
StoreError(bk, d, e) ==
    IF bk = "chroma" THEN e
    ELSE <<"RAG Supabase add_chunks failed for document", d, ":">> \o e

Raise(e) == [kind |-> "raise", err |-> e]
Return(ok, n) == [kind |-> "return", ok |-> ok, chunks |-> n]

\* the chunk records one run writes: rag.py:158-186 (ids, metadata), vector_store.py:45-54
ChunkRecordsAllButLast(r, d, chunks) ==
    {[doc |-> d, run |-> r, index |-> i - 1, text |-> chunks[i]] : i \in 1 .. Len(chunks) - 1}

ChunkRecords(r, d, chunks) ==
    {[doc |-> d, run |-> r, index |-> i - 1, text |-> chunks[i]] : i \in 1 .. Len(chunks)}

\* rag.py:148  chunks = self._split_text(text), of the text run r extracted
Chunks(r) == IF rtext[r] = None THEN <<>> ELSE SplitText(The(rtext[r]))

\* a tracker call made by run r: the new mapping and the values written
JobWrite(r, js, entry) ==
    /\ jobs' = js
    /\ serial' = js
    /\ rlog' = [rlog EXCEPT ![r] = Append(@, entry)]
    /\ UNCHANGED <<lock, tpc, targ, snap, snapRec, last>>

DoUpdate(r, d, u) ==
    JobWrite(r, JobStoreUpdate(jobs, d, u.stage, u.progress, u.message),
             [stage |-> The(u.stage), progress |-> Clamp(The(u.progress)),
              message |-> The(u.message)])

DoFail(r, d, m) ==
    JobWrite(r, JobStoreFail(jobs, d, m), [stage |-> "failed", progress |-> 100, message |-> m])

NoJobWrite == UNCHANGED <<jobs, serial, rlog, lock, tpc, targ, snap, snapRec, last>>

\* a request arrives: documents.py:19 (upload with enable_rag), imports.py:260,
\* routers/rag.py:159
RunBegin(r, trigger, d) ==
    /\ rpc[r] = "new"
    /\ \A q \in Runs : q < r => rpc[q] # "new"
    /\ rin' = [rin EXCEPT ![r] = [kind |-> IF trigger = "index_now" THEN "url" ELSE "file",
                                  doc |-> d]]
    /\ rpc' = [rpc EXCEPT ![r] = IF trigger = "upload" THEN "analyze"
                                 ELSE IF trigger = "import" THEN "start" ELSE "get_engine"]
    /\ NoJobWrite
    /\ UNCHANGED <<started, engine, backend, rres, rtext, rcalls, store>>
    /\ UNCHANGED libVars
    /\ UNCHANGED queryVars
    /\ UNCHANGED sessionVars

\* rag.py:747-751  get_engine run whole by a handler on the event loop; ok: whether
\* RAGEngine() returns when it is called (the exception leaves _engine as it was)
LoopGetEngine(ok) ==
    IF engine = "none" /\ ok
    THEN /\ engine' = "built"
         /\ engineObj' = Some(LoopEngineId)
         /\ made' = made \cup {LoopEngineId}
    ELSE UNCHANGED <<engine, engineObj, made>>

\* documents.py:130-173  the auto-analysis calls get_engine() inside its own try
Analyze(r) ==
    /\ rpc[r] = "analyze"
    /\ \E ok \in BOOLEAN : LoopGetEngine(ok)
    /\ rpc' = [rpc EXCEPT ![r] = "start"]
    /\ NoJobWrite
    /\ UNCHANGED <<started, backend, rin, rres, rtext, rcalls, store>>
    /\ UNCHANGED libVars
    /\ UNCHANGED queryVars
    /\ UNCHANGED callerVars

\* documents.py:180, imports.py:263, routers/rag.py:174
TrigStart(r) ==
    /\ rpc[r] = "start"
    /\ JobWrite(r, JobStoreStart(jobs, rin[r].doc),
                [stage |-> "upload", progress |-> 0, message |-> FreshJob(rin[r].doc).message])
    /\ started' = started \cup {rin[r].doc}
    /\ rpc' = [rpc EXCEPT ![r] = IF rin[r].kind = "url" THEN "download" ELSE "upd5"]
    /\ UNCHANGED <<engine, backend, rin, rres, rtext, rcalls, store>>
    /\ UNCHANGED libVars
    /\ UNCHANGED queryVars
    /\ UNCHANGED sessionVars

\* documents.py:181, imports.py:264
TrigUpload5(r) ==
    /\ rpc[r] = "upd5"
    /\ DoUpdate(r, rin[r].doc, UploadUpdate)
    /\ rpc' = [rpc EXCEPT ![r] = "get_engine"]
    /\ UNCHANGED <<started, engine, backend, rin, rres, rtext, rcalls, store>>
    /\ UNCHANGED libVars
    /\ UNCHANGED queryVars
    /\ UNCHANGED sessionVars

\* rag.py:747-751 called at documents.py:184, imports.py:267, routers/rag.py:171.
\* An exception of RAGEngine() leaves the handler: documents.py:221, imports.py:293
\* log it, routers/rag.py:171 is outside any try.
GetEngine(r) ==
    /\ rpc[r] = "get_engine"
    /\ \E ok \in BOOLEAN :
          /\ engine = "built" => ok
          /\ LoopGetEngine(ok)
          /\ IF ok
             THEN /\ rpc' = [rpc EXCEPT ![r] = IF rin[r].kind = "url"
                                               THEN "start" ELSE "idx_chunking"]
                  /\ rres' = rres
             ELSE /\ rpc' = [rpc EXCEPT ![r] = "done"]
                  /\ rres' = [rres EXCEPT ![r] = [kind |-> "not_called", err |-> <<"EngineInit">>]]
    /\ NoJobWrite
    /\ UNCHANGED <<started, backend, rin, rtext, rcalls, store>>
    /\ UNCHANGED libVars
    /\ UNCHANGED queryVars
    /\ UNCHANGED callerVars

\* rag.py:255-258  index_document_from_url downloads the file
Download(r) ==
    /\ rpc[r] = "download"
    /\ \E ok \in BOOLEAN :
          IF ok
          THEN rpc' = [rpc EXCEPT ![r] = "idx_chunking"] /\ rres' = rres
          ELSE rpc' = [rpc EXCEPT ![r] = "catch"]
               /\ rres' = [rres EXCEPT ![r] = Raise(<<"Download">>)]
    /\ NoJobWrite
    /\ UNCHANGED <<started, engine, backend, rin, rtext, rcalls, store>>
    /\ UNCHANGED libVars
    /\ UNCHANGED queryVars
    /\ UNCHANGED sessionVars

\* rag.py:134-138
IdxChunking(r) ==
    /\ rpc[r] = "idx_chunking"
    /\ DoUpdate(r, rin[r].doc, ChunkingUpdate)
    /\ rpc' = [rpc EXCEPT ![r] = "idx_extract"]
    /\ UNCHANGED <<started, engine, backend, rin, rres, rtext, rcalls, store>>
    /\ UNCHANGED libVars
    /\ UNCHANGED queryVars
    /\ UNCHANGED sessionVars

\* rag.py:139-148  extract, the empty-text exit, split
IdxExtract(r, f) ==
    /\ rpc[r] = "idx_extract"
    /\ LET x == ExtractText(f)
       IN  IF ~x.ok
           THEN /\ NoJobWrite
                /\ rres' = [rres EXCEPT ![r] = Raise(x.err)]
                /\ rpc' = [rpc EXCEPT ![r] = "catch"]
                /\ rtext' = rtext
           ELSE IF IsBlank(x.text)
           THEN /\ DoFail(r, rin[r].doc, NoTextMessage)
                /\ rres' = [rres EXCEPT ![r] = Return(FALSE, 0)]
                /\ rpc' = [rpc EXCEPT ![r] = "done"]
                /\ rtext' = [rtext EXCEPT ![r] = Some(x.text)]
           ELSE /\ NoJobWrite
                /\ rres' = rres
                /\ rpc' = [rpc EXCEPT ![r] = "idx_embedding"]
                /\ rtext' = [rtext EXCEPT ![r] = Some(x.text)]
    /\ UNCHANGED <<started, engine, backend, rin, rcalls, store>>
    /\ UNCHANGED libVars
    /\ UNCHANGED queryVars
    /\ UNCHANGED sessionVars

\* rag.py:150-154
IdxEmbedding(r) ==
    /\ rpc[r] = "idx_embedding"
    /\ DoUpdate(r, rin[r].doc, EmbeddingUpdate(Len(Chunks(r))))
    /\ rpc' = [rpc EXCEPT ![r] = "idx_embed"]
    /\ UNCHANGED <<started, engine, backend, rin, rres, rtext, rcalls, store>>
    /\ UNCHANGED libVars
    /\ UNCHANGED queryVars
    /\ UNCHANGED sessionVars

\* rag.py:203, 215  where index_document goes once the embeddings are there
StoreStepAlwaysStoring(bk) == "idx_storing"

StoreStep(bk) == IF bk = "chroma" THEN "idx_add" ELSE "idx_storing"

\* rag.py:190-197  the handler of an embedding failure: fail, then re-raise
EmbedFailureSwallowed(bk, e) == [pc |-> StoreStep(bk), res |-> [kind |-> "none"]]

EmbedFailure(bk, e) == [pc |-> "catch", res |-> Raise(e)]

\* rag.py:92-121  _embed_texts.  provider is settings.embed_provider, hasKey whether
\* the key of that provider is set, callOk whether the model that is called answers;
\* `called` is the set of models that were called
EmbedTextsLocalWithoutKey(provider, hasKey, callOk) ==
    [called |-> {"local"},
     res |-> IF callOk THEN [kind |-> "vectors"] ELSE Raise(<<"Embed">>)]

EmbedTexts(provider, hasKey, callOk) ==
    LET p == IF provider = None THEN "local"
             ELSE IF The(provider) = "OpenAI" THEN "openai" ELSE The(provider)
        called == IF p \in {"openai", "gemini"} THEN p ELSE "local"
    IN  IF p = "openai" /\ ~hasKey
        THEN [called |-> {},
              res |-> Raise(<<"OPENAI_API_KEY is required for OpenAI embeddings">>)]
        ELSE IF p = "gemini" /\ ~hasKey
        THEN [called |-> {},
              res |-> Raise(<<"GEMINI_API_KEY is required for Gemini embeddings">>)]
        ELSE [called |-> {called},
              res |-> IF callOk THEN [kind |-> "vectors"] ELSE Raise(<<"Embed">>)]

\* the embedding settings an engine can have (rag.py:37-51)
EmbedSettings ==
    { [provider |-> None, hasKey |-> FALSE], [provider |-> Some("other"), hasKey |-> TRUE],
      [provider |-> Some("OpenAI"), hasKey |-> TRUE],
      [provider |-> Some("OpenAI"), hasKey |-> FALSE],
      [provider |-> Some("gemini"), hasKey |-> FALSE] }

\* rag.py:187-197  _embed_texts(documents)
IdxEmbed(r) ==
    /\ rpc[r] = "idx_embed"
    /\ \E s \in EmbedSettings, callOk \in BOOLEAN :
          LET e == EmbedTexts(s.provider, s.hasKey, callOk)
              nokey == IF s.provider \in {Some("OpenAI"), Some("gemini")} /\ ~s.hasKey
                       THEN {"embed_nokey"} ELSE {}
          IN  IF e.res.kind # "raise"
              THEN /\ rcalls' = [rcalls EXCEPT ![r] = @ \cup {"embed"} \cup nokey \cup e.called]
                   /\ rpc' = [rpc EXCEPT ![r] = StoreStep(backend)]
                   /\ rres' = rres
                   /\ NoJobWrite
              ELSE /\ rcalls' = [rcalls EXCEPT
                                    ![r] = @ \cup {"embed", "embed_raised"} \cup nokey
                                             \cup e.called]
                   /\ DoFail(r, rin[r].doc, EmbedFailedMessage(e.res.err))
                   /\ rpc' = [rpc EXCEPT ![r] = EmbedFailure(backend, e.res.err).pc]
                   /\ rres' = [rres EXCEPT ![r] = EmbedFailure(backend, e.res.err).res]
    /\ UNCHANGED <<started, engine, backend, rin, rtext, store>>
    /\ UNCHANGED libVars
    /\ UNCHANGED queryVars
    /\ UNCHANGED sessionVars

\* rag.py:218-222
IdxStoring(r) ==
    /\ rpc[r] = "idx_storing"
    /\ DoUpdate(r, rin[r].doc, StoringUpdate)
    /\ rpc' = [rpc EXCEPT ![r] = "idx_add"]
    /\ UNCHANGED <<started, engine, backend, rin, rres, rtext, rcalls, store>>
    /\ UNCHANGED libVars
    /\ UNCHANGED queryVars
    /\ UNCHANGED sessionVars

\* rag.py:203-214 (collection.add) and rag.py:223-239 with vector_store.py:19-63
IdxAdd(r) ==
    /\ rpc[r] = "idx_add"
    /\ \E ok \in BOOLEAN :
          IF ok
          THEN /\ rcalls' = [rcalls EXCEPT ![r] = @ \cup {"add"}]
               /\ store' = store \cup ChunkRecords(r, rin[r].doc, Chunks(r))
               /\ rpc' = [rpc EXCEPT ![r] = "idx_success"]
               /\ rres' = rres
               /\ NoJobWrite
          ELSE /\ rcalls' = [rcalls EXCEPT ![r] = @ \cup {"add", "add_raised"}]
               /\ store' = store
               /\ DoFail(r, rin[r].doc,
                         StoreFailedMessage(backend, AddError(backend, <<"StoreAdd">>)))
               /\ rpc' = [rpc EXCEPT ![r] = "catch"]
               /\ rres' = [rres EXCEPT ![r] =
                               Raise(StoreError(backend, rin[r].doc,
                                                AddError(backend, <<"StoreAdd">>)))]
    /\ UNCHANGED <<started, engine, backend, rin, rtext>>
    /\ UNCHANGED libVars
    /\ UNCHANGED queryVars
    /\ UNCHANGED sessionVars

\* rag.py:240-246
IdxSuccess(r) ==
    /\ rpc[r] = "idx_success"
    /\ JobWrite(r, JobStoreSuccess(jobs, rin[r].doc),
                [stage |-> "indexed", progress |-> 100, message |-> DoneMessage])
    /\ rres' = [rres EXCEPT ![r] = Return(TRUE, Len(Chunks(r)))]
    /\ rpc' = [rpc EXCEPT ![r] = "done"]
    /\ UNCHANGED <<started, engine, backend, rin, rtext, rcalls, store>>
    /\ UNCHANGED libVars
    /\ UNCHANGED queryVars
    /\ UNCHANGED sessionVars

\* documents.py:206-211, imports.py:285-290, routers/rag.py:185-186
Catch(r) ==
    /\ rpc[r] = "catch"
    /\ DoFail(r, rin[r].doc, CatchMessage(rin[r].kind, rres[r].err))
    /\ rpc' = [rpc EXCEPT ![r] = "done"]
    /\ UNCHANGED <<started, engine, backend, rin, rres, rtext, rcalls, store>>
    /\ UNCHANGED libVars
    /\ UNCHANGED queryVars
    /\ UNCHANGED sessionVars

Next ==
    \/ \E r \in Runs, t \in Triggers, d \in DocIds : RunBegin(r, t, d)
    \/ \E r \in Runs : Analyze(r)
    \/ \E r \in Runs : TrigStart(r)
    \/ \E r \in Runs : TrigUpload5(r)
    \/ \E r \in Runs : GetEngine(r)
    \/ \E r \in Runs : Download(r)
    \/ \E r \in Runs : IdxChunking(r)
    \/ \E r \in Runs, f \in Files : IdxExtract(r, f)
    \/ \E r \in Runs : IdxEmbedding(r)
    \/ \E r \in Runs : IdxEmbed(r)
    \/ \E r \in Runs : IdxStoring(r)
    \/ \E r \in Runs : IdxAdd(r)
    \/ \E r \in Runs : IdxSuccess(r)
    \/ \E r \in Runs : Catch(r)

Spec == Init /\ [][Next]_vars

(***************************************************************************)
(* SupabaseVectorStore (vector_store.py) on the rows of its table.  A row  *)
(* keeps the columns the methods read back: document_id, subject_id,       *)
(* chunk_index, content.  Identifiers are strings (sequences of            *)
(* characters) because the methods trim them.                              *)
(***************************************************************************)
MaxChunks == 2       \* length of the chunk lists passed to add_chunks
MaxRows == 2         \* rows the table may hold

ChunkTexts == {<<"x">>, <<"y">>, <<" ">>}
SvsIds == {<<"d">>, <<"d", " ">>, <<"e">>, <<" ">>}
SvsSubjects == {Some(<<"A">>)}

RECURSIVE ListsUpTo(_, _)
ListsUpTo(S, n) ==
    IF n = 0 THEN {<<>>}
    ELSE LET shorter == ListsUpTo(S, n - 1)
         IN  shorter \cup {Append(l, x) : l \in shorter, x \in S}

\* vector_store.py:36-40  _canon_str
CanonStr(val) ==
    IF val = None THEN None
    ELSE IF Strip(The(val)) = <<>> THEN None ELSE Some(Strip(The(val)))

(***************************************************************************)
(* user_id of add_chunks (vector_store.py:26-33): str(uuid.UUID(str(id))). *)
(* A user id is a sequence of characters.  uuid.UUID removes "urn:" and    *)
(* "uuid:", strips braces, removes the hyphens, wants 32 characters left   *)
(* and reads them with int(hex, 16); str() of the UUID writes the 128-bit  *)
(* number as 32 lower-case hex digits in groups of 8-4-4-4-12.             *)
(***************************************************************************)
HexDigits == {"0", "1", "2", "3", "4", "5", "6", "7", "8", "9",
              "a", "b", "c", "d", "e", "f"}

HexLower(c) ==
    CASE c = "A" -> "a" [] c = "B" -> "b" [] c = "C" -> "c" [] c = "D" -> "d"
      [] c = "E" -> "e" [] c = "F" -> "f" [] OTHER -> c

\* str.replace(pat, ""): the occurrences of pat are removed, left to right
RECURSIVE RemoveAll(_, _)
RemoveAll(s, pat) ==
    LET n == Len(pat)
        hits == {i \in 1 .. Len(s) - n + 1 : SubSeq(s, i, i + n - 1) = pat}
    IN  IF hits = {} THEN s
        ELSE LET k == CHOOSE i \in hits : \A j \in hits : i <= j
             IN  SubSeq(s, 1, k - 1) \o RemoveAll(SubSeq(s, k + n, Len(s)), pat)

\* str.strip(chars): the characters of cs are removed at both ends
StripChars(s, cs) ==
    IF \A i \in 1 .. Len(s) : s[i] \in cs THEN <<>>
    ELSE LET lo == CHOOSE i \in 1 .. Len(s) :
                       s[i] \notin cs /\ \A j \in 1 .. i - 1 : s[j] \in cs
             hi == CHOOSE i \in 1 .. Len(s) :
                       s[i] \notin cs /\ \A j \in i + 1 .. Len(s) : s[j] \in cs
         IN  SubSeq(s, lo, hi)

\* int(h, 16) of a text without "-": None when it raises ValueError, else the hex
\* digits of the number.  Blanks around the text, a "+" sign, a 0x prefix (and an
\* underscore after it) and single underscores between the digits are accepted.
DropSign(s) == IF s # <<>> /\ s[1] = "+" THEN Tail(s) ELSE s

AfterPrefix(s) == IF s # <<>> /\ s[1] = "_" THEN Tail(s) ELSE s

DropPrefix(s) ==
    IF Len(s) >= 2 /\ s[1] = "0" /\ s[2] \in {"x", "X"}
    THEN AfterPrefix(SubSeq(s, 3, Len(s))) ELSE s

LowerDigits(kept) == [i \in 1 .. Len(kept) |-> HexLower(kept[i])]

HexValue(body) ==
    IF /\ body # <<>>
       /\ body[1] # "_"
       /\ body[Len(body)] # "_"
       /\ \A i \in 1 .. Len(body) - 1 : ~(body[i] = "_" /\ body[i + 1] = "_")
       /\ \A i \in 1 .. Len(body) : body[i] = "_" \/ HexLower(body[i]) \in HexDigits
    THEN Some(LowerDigits(SelectSeq(body, LAMBDA c : c # "_")))
    ELSE None

ParseHexInt(h) == HexValue(DropPrefix(DropSign(Strip(h))))

\* uuid.UUID(s): the text that is read as a number, and the number read
UuidHex(s) ==
    RemoveAll(StripChars(RemoveAll(RemoveAll(s, <<"u", "r", "n", ":">>),
                                   <<"u", "u", "i", "d", ":">>),
                         {"{", "}"}),
              <<"-">>)

ReadUuidHex(hex) == IF Len(hex) = 32 THEN ParseHexInt(hex) ELSE None

\* str(UUID): 32 hex digits, zeros in front, in groups of 8-4-4-4-12
PadHex(digits) == [i \in 1 .. 32 - Len(digits) |-> "0"] \o digits

Canonical(d) ==
    SubSeq(d, 1, 8) \o <<"-">> \o SubSeq(d, 9, 12) \o <<"-">> \o SubSeq(d, 13, 16)
        \o <<"-">> \o SubSeq(d, 17, 20) \o <<"-">> \o SubSeq(d, 21, 32)

FormatUuid(read) == IF read = None THEN None ELSE Some(Canonical(PadHex(The(read))))

\* str(uuid.UUID(s)): None when UUID raises, else the canonical text
UuidText(s) == FormatUuid(ReadUuidHex(UuidHex(s)))

\* vector_store.py:27-33  user_uuid
UserUuidAsGiven(user_id) ==
    IF user_id = None \/ The(user_id) = <<>> THEN None ELSE user_id

UserUuid(user_id) ==
    IF user_id = None \/ The(user_id) = <<>> THEN None ELSE UuidText(The(user_id))

\* the user ids add_chunks is called with
HexText == <<"1", "2", "3", "4", "5", "6", "7", "8", "9", "a", "b", "c", "d", "e", "f", "0",
             "1", "2", "3", "4", "5", "6", "7", "8", "9", "a", "b", "c", "d", "e", "f", "0">>
CanonId == Canonical(HexText)
UpperBracedId ==
    <<"{">> \o [i \in 1 .. 36 |-> CASE CanonId[i] = "a" -> "A" [] CanonId[i] = "b" -> "B"
                                    [] CanonId[i] = "c" -> "C" [] CanonId[i] = "d" -> "D"
                                    [] CanonId[i] = "e" -> "E" [] CanonId[i] = "f" -> "F"
                                    [] OTHER -> CanonId[i]] \o <<"}">>
UrnId == <<"u", "r", "n", ":", "u", "u", "i", "d", ":">> \o CanonId
PrefixedId == <<"0", "x">> \o SubSeq(HexText, 3, 32)
MalformedIds == {<<"a", "b", "c">>, [CanonId EXCEPT ![1] = "g"], SubSeq(CanonId, 1, 35),
                 <<" ">>}
UserIds == {None, Some(<<>>)}
               \cup {Some(u) : u \in {CanonId, UpperBracedId, UrnId, HexText, PrefixedId}}
               \cup {Some(u) : u \in MalformedIds}

\* vector_store.py:42-54  the rows built from zip(chunks, embeddings)
SvsRowsIndexReversed(d, sid, user_id, chunks, nEmb) ==
    [i \in 1 .. Min(Len(chunks), nEmb) |->
        [document_id |-> CanonStr(Some(d)), subject_id |-> CanonStr(sid),
         user_id |-> UserUuid(user_id),
         chunk_index |-> Min(Len(chunks), nEmb) - i, content |-> chunks[i]]]

SvsRows(d, sid, user_id, chunks, nEmb) ==
    [i \in 1 .. Min(Len(chunks), nEmb) |->
        [document_id |-> CanonStr(Some(d)), subject_id |-> CanonStr(sid),
         user_id |-> UserUuid(user_id),
         chunk_index |-> i - 1, content |-> chunks[i]]]

\* vector_store.py:19-63  add_chunks: the rows sent to the table, the table after
\* the call and what the call returns; nothing is sent when there are no rows
AddChunks(tbl, d, sid, user_id, chunks, nEmb, ok) ==
    LET rows == SvsRows(d, sid, user_id, chunks, nEmb)
    IN  IF rows = <<>> THEN [sent |-> rows, table |-> tbl, res |-> [kind |-> "return"]]
        ELSE IF ok THEN [sent |-> rows, table |-> tbl \o rows, res |-> [kind |-> "return"]]
        ELSE [sent |-> rows, table |-> tbl,
              res |-> Raise(AddError("supabase", <<"Insert">>))]

\* vector_store.py:91  the default of limit
DefaultLimit == 100
\* vector_store.py:106  the largest limit sent to the table
MaxLimit == 500
\* vector_store.py:106  max(1, min(limit, 500))
ClampLimit(limit) == Max(1, Min(limit, MaxLimit))

\* vector_store.py:105  .order("chunk_index", desc=False); rows with the same
\* chunk_index are kept in insertion order
RECURSIVE InsertByIndex(_, _)
InsertByIndex(sorted, row) ==
    IF sorted = <<>> THEN <<row>>
    ELSE IF row.chunk_index < Head(sorted).chunk_index THEN <<row>> \o sorted
    ELSE <<Head(sorted)>> \o InsertByIndex(Tail(sorted), row)
RECURSIVE OrderByChunkIndex(_)
OrderByChunkIndex(rows) ==
    IF rows = <<>> THEN <<>>
    ELSE InsertByIndex(OrderByChunkIndex(SubSeq(rows, 1, Len(rows) - 1)), rows[Len(rows)])

\* vector_store.py:104  .eq("document_id", did)
RowsOfDocument(tbl, did) == SelectSeq(tbl, LAMBDA r : r.document_id = Some(did))

\* vector_store.py:111  the contents that are non-blank strings
NonBlankContents(rows) ==
    LET kept == SelectSeq(rows, LAMBDA r : Strip(r.content) # <<>>)
    IN  [i \in 1 .. Len(kept) |-> kept[i].content]

\* vector_store.py:91-116  get_chunks_by_document; a failing select gives []
GetChunksByDocument(tbl, d, limit, ok) ==
    LET did == Strip(d)
    IN  IF did = <<>> \/ ~ok THEN <<>>
        ELSE NonBlankContents(Prefix(OrderByChunkIndex(RowsOfDocument(tbl, did)),
                                     ClampLimit(limit)))

\* vector_store.py:118-127  delete_chunks_by_document; a failing delete is ignored
DeleteChunksByDocument(tbl, d, ok) ==
    LET did == Strip(d)
    IN  IF did = <<>> \/ ~ok THEN tbl
        ELSE SelectSeq(tbl, LAMBDA r : r.document_id # Some(did))

ChunkLists == ListsUpTo(ChunkTexts, MaxChunks)
Limits == {0, DefaultLimit}

\* vector_store.py:19-63
SvsAdd(d, sid, user_id, chunks, nEmb, ok) ==
    /\ Len(table) + Len(chunks) <= MaxRows
    /\ LET a == AddChunks(table, d, sid, user_id, chunks, nEmb, ok)
       IN  /\ table' = a.table
           /\ svsLast' = [op |-> "add", id |-> d, chunks |-> chunks, nEmb |-> nEmb,
                          user_id |-> user_id, sent |-> a.sent,
                          fresh |-> RowsOfDocument(table, Strip(d)) = <<>>, res |-> a.res]
    /\ UNCHANGED trackerVars
    /\ UNCHANGED ingestVars
    /\ UNCHANGED queryVars
    /\ UNCHANGED sessionVars

\* vector_store.py:91-116, called by routers/quiz.py:63
SvsGet(d, limit, ok) ==
    /\ svsLast' = [op |-> "get", id |-> d, limit |-> limit, ok |-> ok,
                   afterAdd |-> svsLast.op = "add" /\ Strip(svsLast.id) = Strip(d),
                   out |-> GetChunksByDocument(table, d, limit, ok)]
    /\ UNCHANGED table
    /\ UNCHANGED trackerVars
    /\ UNCHANGED ingestVars
    /\ UNCHANGED queryVars
    /\ UNCHANGED sessionVars

\* vector_store.py:118-127
SvsDelete(d, ok) ==
    /\ table' = DeleteChunksByDocument(table, d, ok)
    /\ svsLast' = [op |-> "delete", id |-> d, ok |-> ok]
    /\ UNCHANGED trackerVars
    /\ UNCHANGED ingestVars
    /\ UNCHANGED queryVars
    /\ UNCHANGED sessionVars

SvsNext ==
    \/ \E d \in SvsIds, sid \in SvsSubjects, chunks \in ChunkLists, ok \in BOOLEAN :
           \E nEmb \in {Len(chunks), Max(0, Len(chunks) - 1)},
              user_id \in IF d = <<"d">> /\ chunks = << <<"x">> >> THEN UserIds ELSE {None} :
               SvsAdd(d, sid, user_id, chunks, nEmb, ok)
    \/ \E d \in SvsIds, limit \in Limits, ok \in BOOLEAN : SvsGet(d, limit, ok)
    \/ \E d \in SvsIds, ok \in BOOLEAN : SvsDelete(d, ok)

SvsSpec == Init /\ [][SvsNext]_vars

(***************************************************************************)
(* RAGEngine.retrieve (rag.py:263-427).  The vector store ranks its chunks *)
(* by distance to the query: `corpus` lists them nearest first, so a       *)
(* similarity search is a prefix of the chunks that pass the store's own   *)
(* filter.  A timestamp is a number (ISO strings compare the same way).    *)
(* A missing dict key and a None value are both None: the code reads       *)
(* metadata with .get only.                                                *)
(***************************************************************************)
MaxCorpus == 3       \* chunks held by the vector store

\* rag.py:309  the largest n_results sent to the embedded store
ChromaMaxK == 20
\* vector_store.py:68  the largest match_count sent to the relational store
SvsMaxK == 50

\* str.lower() on the letters the file names are made of
Lower(str) ==
    [i \in 1 .. Len(str) |->
        CASE str[i] = "P" -> "p" [] str[i] = "D" -> "d" [] str[i] = "F" -> "f"
          [] OTHER -> str[i]]

\* rag.py:170 and rag.py:362  fname.split('.')[-1] if '.' in fname else ''
RECURSIVE AfterLastDot(_, _)
AfterLastDot(str, acc) ==
    IF str = <<>> THEN acc
    ELSE IF Head(str) = "." THEN AfterLastDot(Tail(str), Some(<<>>))
    ELSE AfterLastDot(Tail(str), IF acc = None THEN None ELSE Some(Append(The(acc), Head(str))))
ExtOf(fname) == LET a == AfterLastDot(fname, None) IN IF a = None THEN <<>> ELSE The(a)

\* outs[:k] of Python, k of either sign
PySlice(seq, k) == IF k >= 0 THEN Prefix(seq, k) ELSE Prefix(seq, Max(0, Len(seq) + k))

\* the rows of the documents table the relational backend reads at rag.py:344
DocumentRows ==
    [d \in {"d1", "d2", "d3"} |->
        CASE d = "d1" -> Some([id |-> "d1", author |-> Some("ann"), tags |-> {"t1"},
                               created_at |-> Some(2024), file_url |-> Some("u1"),
                               subject_id |-> Some("A"),
                               file_path |-> Some(<<"f", ".", "P", "D", "F">>),
                               name |-> None])
          [] d = "d2" -> Some([id |-> "d2", author |-> Some("bob"), tags |-> {},
                               created_at |-> None, file_url |-> None,
                               subject_id |-> Some("B"), file_path |-> None,
                               name |-> Some(<<"g">>)])
          [] OTHER -> None]

\* the chunks that can be in the store, with what index_document was given for them
\* (rag.py:124-130): the third was indexed when its document was in subject B, the
\* document of the fourth has no row in the documents table any more
ChunkPool ==
    { [text |-> "x", document_id |-> "d1", subject_id |-> Some("A"),
       file_name |-> <<"f", ".", "P", "D", "F">>,
       author |-> Some("ann"), tags |-> {"t1"}, created_at |-> Some(2024),
       file_url |-> Some("u1")],
      [text |-> "y", document_id |-> "d2", subject_id |-> Some("B"), file_name |-> <<"g">>,
       author |-> Some("bob"), tags |-> {}, created_at |-> None, file_url |-> None],
      [text |-> "z", document_id |-> "d1", subject_id |-> Some("B"),
       file_name |-> <<"f", ".", "P", "D", "F">>,
       author |-> Some("ann"), tags |-> {"t1"}, created_at |-> Some(2024),
       file_url |-> Some("u1")],
      [text |-> "w", document_id |-> "d3", subject_id |-> Some("A"), file_name |-> <<"g">>,
       author |-> Some("ann"), tags |-> {}, created_at |-> Some(2025), file_url |-> None] }

\* rag.py:161-185  the metadata index_document stores with a chunk in the embedded store
ChromaMeta(c) ==
    [document_id |-> Some(c.document_id),
     subject_id |-> IF c.subject_id = None THEN Some("") ELSE c.subject_id,
     file_name |-> Some(c.file_name),
     file_ext |-> IF ExtOf(Lower(c.file_name)) = <<>> THEN None
                  ELSE Some(ExtOf(Lower(c.file_name))),
     author |-> c.author, tags |-> c.tags, created_at |-> c.created_at,
     file_url |-> c.file_url,
     source |-> IF c.file_url = None THEN Some("local") ELSE Some("url"),
     page |-> None]

\* vector_store.py:80-86  the metadata SupabaseVectorStore.query returns with a row
SvsMeta(c) ==
    [document_id |-> Some(c.document_id), subject_id |-> c.subject_id,
     file_name |-> Some(c.file_name), file_ext |-> None, author |-> None, tags |-> {},
     created_at |-> None, file_url |-> None, source |-> None, page |-> None]

\* rag.py:328 and rag.py:404-409
Citation(m, text) ==
    [title |-> m.file_name, url |-> m.file_url, page |-> m.page, snippet |-> text]

\* rag.py:263  the arguments of retrieve; user_id is None in every caller
NoFilter ==
    [top_k |-> 5, subject_id |-> None, subject_ids |-> {}, tags |-> {}, author |-> None,
     time_from |-> None, time_to |-> None, source |-> None, file_type |-> None,
     page_from |-> None, page_to |-> None]

\* rag.py:270-302  the where clause, as the embedded store evaluates it on a chunk
WhereMatches(m, a) ==
    /\ IF a.subject_ids # {} THEN m.subject_id # None /\ The(m.subject_id) \in a.subject_ids
       ELSE a.subject_id # None => m.subject_id = a.subject_id
    /\ (a.author # None /\ The(a.author) # "") => m.author = a.author
    /\ a.tags # {} => m.tags \cap a.tags # {}
    /\ a.source \in {Some("local"), Some("url")} => m.source = a.source
    /\ (a.file_type # None /\ The(a.file_type) # <<>>)
           => m.file_ext = Some(Lower(The(a.file_type)))
    /\ a.time_from # None => (m.created_at # None /\ The(m.created_at) >= The(a.time_from))
    /\ a.time_to # None => (m.created_at # None /\ The(m.created_at) <= The(a.time_to))
    /\ a.page_from # None => (m.page # None /\ The(m.page) >= The(a.page_from))
    /\ a.page_to # None => (m.page # None /\ The(m.page) <= The(a.page_to))

\* rag.py:731  the score self._cross_encoder.predict gives the pair (query, text)
CrossScore(text) == CASE text = "x" -> 1 [] text = "y" -> 3 [] text = "z" -> 2 [] OTHER -> 4

\* rag.py:723-740  _maybe_rerank.  With rerank on and more than one result, line 732
\* unpacks each result dict into its keys, line 734 keeps the first key (a str) and
\* line 736 assigns an item of that str: TypeError, caught at line 738.  A cross
\* encoder that cannot be loaded raises earlier, into the same handler.
MaybeRerank(rerank, outs, top_k) ==
    IF ~rerank \/ Len(outs) <= 1 THEN PySlice(outs, top_k)
    ELSE PySlice(outs, top_k)

Returned(outs) == [kind |-> "return", outs |-> outs]

\* rag.py:267-332  retrieve on the embedded store
RetrieveChroma(chunks, a, searchOk, rerank) ==
    IF ~searchOk THEN Raise(<<"Search">>)
    ELSE LET matching == SelectSeq(chunks, LAMBDA c : WhereMatches(ChromaMeta(c), a))
             found == Prefix(matching, Max(1, Min(a.top_k, ChromaMaxK)))
             outs == [i \in 1 .. Len(found) |->
                         [text |-> found[i].text, metadata |-> ChromaMeta(found[i]),
                          citation |-> Citation(ChromaMeta(found[i]), found[i].text)]]
         IN  Returned(MaybeRerank(rerank, outs, a.top_k))

\* vector_store.py:68-70  the payload of the search function
MatchCount(top_k) == Max(1, Min(top_k, SvsMaxK))
\* (str(subject_id).strip() or None): a blank subject id is no subject id
PayloadSubject(subject_id) ==
    IF subject_id = None \/ The(subject_id) \in {"", " "} THEN None ELSE subject_id

\* the search function match_rag_chunks of the database (called at vector_store.py:73):
\* the match_count nearest rows, of the given subject when one is given
MatchRagChunks(chunks, match_count, subject_id) ==
    Prefix(SelectSeq(chunks, LAMBDA c : subject_id # None => c.subject_id = subject_id),
           match_count)

\* vector_store.py:65-89  SupabaseVectorStore.query
SvsQuery(chunks, top_k, subject_id) ==
    LET rows == MatchRagChunks(chunks, MatchCount(top_k), PayloadSubject(subject_id))
    IN  [i \in 1 .. Len(rows) |-> [text |-> rows[i].text, metadata |-> SvsMeta(rows[i])]]

\* `x or y` on optional values
OrElse(x, y) == IF x = None THEN y ELSE x

\* rag.py:353-370  the metadata of a result after its document row was attached
Enrich(m, drow) ==
    LET fname == Lower(The(OrElse(OrElse(drow.file_path, drow.name), Some(<<>>))))
        ext == ExtOf(fname)
    IN  [m EXCEPT !.author = drow.author,
                  !.tags = drow.tags,
                  !.created_at = drow.created_at,
                  !.file_url = drow.file_url,
                  !.subject_id = OrElse(drow.subject_id, m.subject_id),
                  !.file_ext = IF ext # <<>> THEN Some(ext) ELSE m.file_ext,
                  !.source = IF drow.file_url = None THEN Some("local") ELSE Some("url")]

\* rag.py:350-370
Enriched(m, docs) ==
    IF docs[The(m.document_id)] = None THEN m ELSE Enrich(m, The(docs[The(m.document_id)]))

\* rag.py:372-402  the filters applied to an enriched result: TRUE when it is kept
Keep(m, a) ==
    /\ ~(a.author # None /\ The(a.author) # "" /\ m.author # a.author)
    /\ ~(a.tags # {} /\ m.tags \cap a.tags = {})
    /\ ~(a.time_from # None /\ m.created_at # None /\ The(m.created_at) < The(a.time_from))
    /\ ~(a.time_to # None /\ m.created_at # None /\ The(m.created_at) > The(a.time_to))
    /\ ~(a.source \in {Some("local"), Some("url")} /\ m.source # a.source)
    /\ ~(a.file_type # None /\ The(a.file_type) # <<>>
         /\ Lower(The(OrElse(m.file_ext, Some(<<>>)))) # Lower(The(a.file_type)))
    /\ ~(a.subject_ids # {} /\ The(OrElse(m.subject_id, Some(""))) \notin a.subject_ids)
    /\ ~(a.page_from # None /\ m.page # None /\ The(m.page) < The(a.page_from))
    /\ ~(a.page_to # None /\ m.page # None /\ The(m.page) > The(a.page_to))

\* rag.py:348-411  attach, filter, build the citation
EnrichAndFilter(outs, docs, a) ==
    LET enriched == [i \in 1 .. Len(outs) |->
                        [outs[i] EXCEPT !.metadata = Enriched(@, docs)]]
        kept == SelectSeq(enriched, LAMBDA o : Keep(o.metadata, a))
    IN  [i \in 1 .. Len(kept) |->
            [text |-> kept[i].text, metadata |-> kept[i].metadata,
             citation |-> Citation(kept[i].metadata, kept[i].text)]]

\* rag.py:412-421  the handler of a failed enrichment: every result of the search
\* gets the citation of its own metadata, no filter is applied
EnrichFailedRaises(outs) == Raise(<<"Lookup">>)

EnrichFailed(outs) ==
    Returned([i \in 1 .. Len(outs) |->
                 [text |-> outs[i].text, metadata |-> outs[i].metadata,
                  citation |-> Citation(outs[i].metadata, outs[i].text)]])

\* rag.py:333-427  retrieve on the relational store
RetrieveSupabase(chunks, docs, a, searchOk, lookupOk, rerank) ==
    IF ~searchOk THEN Raise(<<"Search">>)
    ELSE LET outs == SvsQuery(chunks, a.top_k, a.subject_id)
             cited == IF lookupOk THEN Returned(EnrichAndFilter(outs, docs, a))
                      ELSE EnrichFailed(outs)
         IN  IF cited.kind = "raise" THEN cited
             ELSE Returned(MaybeRerank(rerank, cited.outs, a.top_k))

\* rag.py:263-427
Retrieve(bk, chunks, docs, a, searchOk, lookupOk, rerank) ==
    IF bk = "chroma" THEN RetrieveChroma(chunks, a, searchOk, rerank)
    ELSE RetrieveSupabase(chunks, docs, a, searchOk, lookupOk, rerank)

\* the calls of retrieve that are enumerated
Queries ==
    {[NoFilter EXCEPT !.top_k = k] : k \in {-1, 0, 1, 2, 25, 60}}
    \cup {[NoFilter EXCEPT !.subject_id = sid] : sid \in {Some("A"), Some("B"), Some(" ")}}
    \cup { [NoFilter EXCEPT !.subject_id = Some("A"), !.subject_ids = {"B"}],
           [NoFilter EXCEPT !.subject_ids = {"A", "B"}],
           [NoFilter EXCEPT !.author = Some("ann")],
           [NoFilter EXCEPT !.author = Some("bob"), !.top_k = 1],
           [NoFilter EXCEPT !.tags = {"t1"}],
           [NoFilter EXCEPT !.time_from = Some(2025)],
           [NoFilter EXCEPT !.time_to = Some(2024)],
           [NoFilter EXCEPT !.source = Some("url")],
           [NoFilter EXCEPT !.source = Some("web")],
           [NoFilter EXCEPT !.file_type = Some(<<"P", "d", "f">>)],
           [NoFilter EXCEPT !.page_from = Some(1)] }

\* what the collaborators of retrieve do and the rerank setting (rag.py:42); after a
\* failed search nothing else is called
Outcomes ==
    {[searchOk |-> FALSE, lookupOk |-> TRUE, rerank |-> FALSE]}
    \cup [searchOk : {TRUE}, lookupOk : BOOLEAN, rerank : BOOLEAN]

\* rag.py:203-239  a chunk enters the vector store; where it ranks for the query is
\* its position.  qLast describes a call on the store as it is: it is forgotten
StoreChunk(c, pos) ==
    /\ Len(corpus) < MaxCorpus
    /\ \A i \in 1 .. Len(corpus) : corpus[i] # c
    /\ pos \in 1 .. Len(corpus) + 1
    /\ corpus' = SubSeq(corpus, 1, pos - 1) \o <<c>> \o SubSeq(corpus, pos, Len(corpus))
    /\ qLast' = NoCall
    /\ UNCHANGED trackerVars
    /\ UNCHANGED ingestVars
    /\ UNCHANGED libVars
    /\ UNCHANGED sessionVars

\* rag.py:263-427, called at routers/rag.py:58 and routers/rag.py:111
DoRetrieve(a, searchOk, lookupOk, rerank) ==
    /\ qLast' = [op |-> "retrieve", args |-> a, searchOk |-> searchOk,
                 lookupOk |-> lookupOk, rerank |-> rerank,
                 res |-> Retrieve(backend, corpus, DocumentRows, a, searchOk, lookupOk,
                                  rerank)]
    /\ UNCHANGED corpus
    /\ UNCHANGED trackerVars
    /\ UNCHANGED ingestVars
    /\ UNCHANGED libVars
    /\ UNCHANGED sessionVars

RetrieveNext ==
    \/ \E c \in ChunkPool, pos \in 1 .. MaxCorpus : StoreChunk(c, pos)
    \/ \E a \in Queries, o \in Outcomes : DoRetrieve(a, o.searchOk, o.lookupOk, o.rerank)

RetrieveSpec == Init /\ [][RetrieveNext]_vars

(***************************************************************************)
(* RAGEngine.answer (rag.py:429-469).  A context is a string; the text that *)
(* is returned is the sequence of the pieces it is made of, a reply of a    *)
(* provider is a sequence of characters.                                    *)
(***************************************************************************)
MaxContexts == 3     \* contexts handed to answer

\* rag.py:718-721  _simple_extractive_answer: the preface, a blank line, and
\* "\n\n".join(contexts[:2])
SimpleExtractiveAnswerAll(contexts) ==
    <<"(Khong co LLM cuc bo; tra loi theo ngu canh gan nhat)", "\n\n">>
        \o (IF contexts = <<>> THEN <<>>
            ELSE <<contexts[1]>>
                     \o [i \in 1 .. 2 * (Len(contexts) - 1) |->
                            IF i % 2 = 1 THEN "\n\n" ELSE contexts[1 + i \div 2]])

SimpleExtractiveAnswer(contexts) ==
    <<"(Khong co LLM cuc bo; tra loi theo ngu canh gan nhat)", "\n\n">>
        \o (IF Len(contexts) = 0 THEN <<>>
            ELSE IF Len(contexts) = 1 THEN <<contexts[1]>>
            ELSE <<contexts[1], "\n\n", contexts[2]>>)

\* rag.py:429-469  answer.  provider is settings.llm_provider, hasKey whether the
\* key of that provider is set, reply what the provider's client does when it is
\* called: it raises (a failed import raises in the same try) or it answers with a
\* content that may be missing
Answer(provider, hasKey, reply, contexts) ==
    LET p == IF provider = None THEN "none"
             ELSE IF The(provider) = "OpenAI" THEN "openai" ELSE The(provider)
        fallback == [kind |-> "return", text |-> SimpleExtractiveAnswer(contexts)]
        content == IF reply.content = None THEN <<>> ELSE The(reply.content)
    IN  IF p \in {"openai", "gemini"}
        THEN IF ~hasKey \/ reply.kind = "raise" THEN fallback
             ELSE [kind |-> "return", text |-> Strip(content)]
        ELSE IF p = "ollama"
        THEN IF reply.kind = "raise" \/ Strip(content) = <<>> THEN fallback
             ELSE [kind |-> "return", text |-> Strip(content)]
        ELSE fallback

\* routers/rag.py:82 and routers/rag.py:149
DoAnswer(provider, hasKey, reply, contexts) ==
    /\ qLast' = [op |-> "answer", provider |-> provider, hasKey |-> hasKey,
                 reply |-> reply, contexts |-> contexts,
                 res |-> Answer(provider, hasKey, reply, contexts)]
    /\ UNCHANGED corpus
    /\ UNCHANGED trackerVars
    /\ UNCHANGED ingestVars
    /\ UNCHANGED libVars
    /\ UNCHANGED sessionVars

AnswerNext ==
    \E provider \in {None, Some("none"), Some("OpenAI"), Some("gemini"), Some("ollama"),
                      Some("other")},
       hasKey \in BOOLEAN,
       reply \in {[kind |-> "raise", content |-> None], [kind |-> "text", content |-> None],
                  [kind |-> "text", content |-> Some(<<" ">>)],
                  [kind |-> "text", content |-> Some(<<" ", "a", " ">>)]},
       contexts \in ListsUpTo({"x", "y"}, MaxContexts) :
        DoAnswer(provider, hasKey, reply, contexts)

AnswerSpec == Init /\ [][AnswerNext]_vars

(***************************************************************************)
(* RAGEngine._split_text at the sizes the floor of chunk_size allows: the   *)
(* texts are sentences of given lengths, words of nine letters inside.      *)
(***************************************************************************)
MaxSentences == 3    \* sentences of a text handed to the splitter

\* the text made of sentences of the lengths given, one space between them
TextOf(lens) ==
    Join([k \in 1 .. Len(lens) |->
             [i \in 1 .. lens[k] |->
                 IF i = lens[k] THEN "." ELSE IF i % 10 = 0 THEN " " ELSE "a"]])

\* rag.py:148  chunks = self._split_text(text), under settings chunk_size and
\* chunk_overlap (rag.py:35-36, read from the environment)
DoSplit(lens, chunkSize, chunkOverlap) ==
    /\ qLast = NoCall
    /\ qLast' = [op |-> "split", lens |-> lens, chunk_size |-> chunkSize,
                 chunk_overlap |-> chunkOverlap,
                 chunks |-> SplitTextWith(TextOf(lens), chunkSize, chunkOverlap)]
    /\ UNCHANGED corpus
    /\ UNCHANGED trackerVars
    /\ UNCHANGED ingestVars
    /\ UNCHANGED libVars
    /\ UNCHANGED sessionVars

SplitNext ==
    \E lens \in ListsUpTo({60, 120, 190, 250}, MaxSentences),
       chunkSize \in {100, 200, 300}, chunkOverlap \in {0, 50, 51, 150} :
        DoSplit(lens, chunkSize, chunkOverlap)

SplitSpec == Init /\ [][SplitNext]_vars

(***************************************************************************)
(* POST /rag/stream (routers/rag.py:51-104) and its per-thread memory.      *)
(* A snippet or a text of a result is a string, "" the empty one; a query   *)
(* is a sequence of characters.                                            *)
(***************************************************************************)
MaxMemory == 6       \* entries a thread's memory holds at most in the model
HistoryLimit == 4    \* routers/rag.py:80  prev_ctx[-4:]

\* routers/rag.py:73  r.get("citation", {}).get("snippet") or r.get("text") or ""
ContextOf(r) == IF r.snippet # "" THEN r.snippet ELSE r.text

\* prev_ctx[-4:]: the last HistoryLimit items, all of them when there are fewer
LastItems(s, n) == SubSeq(s, Max(1, Len(s) - n + 1), Len(s))

\* routers/rag.py:76-80  the contexts handed to answer
StreamContexts(history, use, results) ==
    LET contexts == [i \in 1 .. Len(results) |-> ContextOf(results[i])]
        withSnippet == SelectSeq(history, LAMBDA h : h.snippet # "")
        prev_ctx == [i \in 1 .. Len(withSnippet) |-> withSnippet[i].snippet]
    IN  IF use /\ prev_ctx # <<>> THEN LastItems(prev_ctx, HistoryLimit) \o contexts
        ELSE contexts

\* the settings and the behaviour of the LLM that answer is run with
DefaultLlm == [provider |-> None, hasKey |-> FALSE,
               reply |-> [kind |-> "raise", content |-> None]]
OpenAiLlm == [provider |-> Some("openai"), hasKey |-> TRUE,
              reply |-> [kind |-> "text", content |-> Some(<<" ", "a", " ">>)]]

\* routers/rag.py:51-104  rag_stream.  engineOk: whether RAGEngine() returns if
\* get_engine has to call it; results is what engine.retrieve returned, ok whether
\* it returned at all; llm is what answer runs with.  The handler is a coroutine
\* without an await before its return: it runs as one step of the event loop.
DoStream(query, thread_id, memory, engineOk, results, ok, llm) ==
    LET use == thread_id # None /\ The(thread_id) # "" /\ memory
        t == The(thread_id)
        history == IF use /\ chatMemory[t] # None THEN The(chatMemory[t]) ELSE <<>>
        contexts == StreamContexts(history, use, results)
        best_snippet == IF contexts # <<>> THEN contexts[1] ELSE ""
        answer == Answer(llm.provider, llm.hasKey, llm.reply, contexts)
    IN  /\ \A id \in ThreadIds :
               chatMemory[id] # None => Len(The(chatMemory[id])) < MaxMemory
        /\ IF IsBlank(query)
           THEN /\ qLast' = [op |-> "stream_400", query |-> query]
                /\ UNCHANGED <<engine, engineObj, made, chatMemory>>
           ELSE /\ LoopGetEngine(engineOk)
                /\ IF (engine = "none" /\ ~engineOk) \/ ~ok
                   THEN /\ qLast' = [op |-> "stream_raised", query |-> query]
                        /\ UNCHANGED chatMemory
                   ELSE /\ qLast' = [op |-> "stream", query |-> query,
                                     thread_id |-> thread_id, memory |-> memory,
                                     results |-> results, history |-> history,
                                     contexts |-> contexts, llm |-> llm,
                                     answer |-> answer.text]
                        /\ chatMemory' =
                               IF use
                               THEN [chatMemory EXCEPT ![t] =
                                        Some(Append(history, [query |-> query,
                                                              snippet |-> best_snippet]))]
                               ELSE chatMemory
        /\ UNCHANGED <<backend, rpc, rin, rlog, rres, rtext, rcalls, store>>
        /\ UNCHANGED <<corpus, model, loaded, cpc, cuse>>
        /\ UNCHANGED trackerVars
        /\ UNCHANGED libVars

\* the requests that are enumerated: one with a blank query, those in which
\* get_engine or retrieve raises, and those that are answered
StreamNext ==
    \/ DoStream(<<" ">>, None, TRUE, TRUE, <<>>, TRUE, DefaultLlm)
    \/ \E query \in {<<"q">>, <<"r">>}, engineOk \in BOOLEAN :
           DoStream(query, Some("t"), TRUE, engineOk, <<>>, ~engineOk, DefaultLlm)
    \/ \E query \in {<<"q">>, <<"r">>},
          who \in {<<None, TRUE>>, <<Some(""), TRUE>>}
                     \cup {<<Some(t), m>> : t \in ThreadIds, m \in BOOLEAN},
          results \in {<<>>, <<[snippet |-> "x", text |-> "x"]>>,
                       <<[snippet |-> "", text |-> ""]>>,
                       <<[snippet |-> "", text |-> "y"],
                         [snippet |-> "x", text |-> "x"]>>} :
           \E llm \in IF Len(results) = 1 /\ who[1] # Some("") /\ who[2]
                       THEN {DefaultLlm, OpenAiLlm} ELSE {DefaultLlm} :
               DoStream(query, who[1], who[2], TRUE, results, TRUE, llm)

StreamSpec == Init /\ [][StreamNext]_vars

(***************************************************************************)
(* The engine and its local embedding model (rag.py:86-90, 743-751,        *)
(* routers/quiz.py:37).  main.py:6 imports the quiz router when the        *)
(* process starts, so quiz._engine is constructed before any request.      *)
(* get_engine is called on the event-loop thread (the coroutines of the    *)
(* routers) and on worker threads (the plain def route of main.py:63-67);  *)
(* _emb_model is called inside index_document, which the upload and import *)
(* triggers run on the thread pool.  Neither takes a lock: the calls of    *)
(* different threads interleave between their statements.                  *)
(***************************************************************************)
\* the RAGEngine instances the process has constructed
EnginesBuilt == {QuizEngineId} \cup made

\* rag.py:749  get_engine: if _engine is None.  The callers are threads: the plain
\* def route of main.py:63-67 runs on a worker thread, the coroutines of the
\* routers on the event-loop thread, and threads interleave between the lines.
GetEngineTest(t) ==
    /\ cpc[t] \in {"idle", "done", "failed"}
    /\ cpc' = [cpc EXCEPT ![t] = IF engineObj = None THEN "ge_build" ELSE "ge_return"]
    /\ UNCHANGED <<model, loaded, cuse, chatMemory, engineObj, made>>
    /\ UNCHANGED ingestVars
    /\ UNCHANGED trackerVars
    /\ UNCHANGED libVars
    /\ UNCHANGED queryVars

\* rag.py:750  _engine = RAGEngine(): a new instance, named by the thread that
\* constructs it; ok: whether the constructor returns (it raises otherwise)
GetEngineBuild(t, ok) ==
    /\ cpc[t] = "ge_build"
    /\ IF ok
       THEN /\ engine' = "built"
            /\ engineObj' = Some(<<"rag", t>>)
            /\ made' = made \cup {<<"rag", t>>}
            /\ cpc' = [cpc EXCEPT ![t] = "ge_return"]
       ELSE /\ cpc' = [cpc EXCEPT ![t] = "failed"]
            /\ UNCHANGED <<engine, engineObj, made>>
    /\ UNCHANGED <<model, loaded, cuse, chatMemory>>
    /\ UNCHANGED <<backend, rpc, rin, rlog, rres, rtext, rcalls, store>>
    /\ UNCHANGED trackerVars
    /\ UNCHANGED libVars
    /\ UNCHANGED queryVars

\* rag.py:751  return _engine; embeds: whether the caller goes on to embed with
\* the engine (retrieve, index_document) or only wanted it (main.py:66)
GetEngineReturn(t, embeds) ==
    /\ cpc[t] = "ge_return"
    /\ cuse' = [cuse EXCEPT ![t] = [engine |-> The(engineObj), model |-> None]]
    /\ cpc' = [cpc EXCEPT ![t] = IF embeds THEN "emb_test" ELSE "done"]
    /\ UNCHANGED <<model, loaded, chatMemory, engineObj, made>>
    /\ UNCHANGED ingestVars
    /\ UNCHANGED trackerVars
    /\ UNCHANGED libVars
    /\ UNCHANGED queryVars

\* routers/quiz.py:37-161  a handler of the quiz router reads the module's own
\* _engine; it never embeds with it
QuizEngine(t) ==
    /\ cpc[t] \in {"idle", "done", "failed"}
    /\ cpc' = [cpc EXCEPT ![t] = "done"]
    /\ cuse' = [cuse EXCEPT ![t] = [engine |-> QuizEngineId, model |-> None]]
    /\ UNCHANGED <<model, loaded, chatMemory, engineObj, made>>
    /\ UNCHANGED ingestVars
    /\ UNCHANGED trackerVars
    /\ UNCHANGED libVars
    /\ UNCHANGED queryVars

\* rag.py:87  if self._model is None
EmbModelTest(t) ==
    /\ cpc[t] = "emb_test"
    /\ cpc' = [cpc EXCEPT ![t] = IF model[cuse[t].engine] = None THEN "emb_build"
                                 ELSE "emb_return"]
    /\ UNCHANGED <<model, loaded, cuse, chatMemory, engineObj, made>>
    /\ UNCHANGED ingestVars
    /\ UNCHANGED trackerVars
    /\ UNCHANGED libVars
    /\ UNCHANGED queryVars

\* rag.py:89  self._model = SentenceTransformer(...): a new instance, named by the
\* engine and the thread that constructs it; ok: whether the constructor returns
\* (it raises otherwise: self._model stays None and the caller leaves _emb_model)
EmbModelBuild(t, ok) ==
    LET m == [engine |-> cuse[t].engine, by |-> t]
    IN  /\ cpc[t] = "emb_build"
        /\ IF ok
           THEN /\ loaded' = loaded \cup {m}
                /\ model' = [model EXCEPT ![cuse[t].engine] = Some(m)]
                /\ cpc' = [cpc EXCEPT ![t] = "emb_return"]
           ELSE /\ cpc' = [cpc EXCEPT ![t] = "failed"]
                /\ UNCHANGED <<model, loaded>>
        /\ UNCHANGED <<cuse, chatMemory, engineObj, made>>
        /\ UNCHANGED ingestVars
        /\ UNCHANGED trackerVars
        /\ UNCHANGED libVars
        /\ UNCHANGED queryVars

\* rag.py:90  return self._model
EmbModelReturn(t) ==
    /\ cpc[t] = "emb_return"
    /\ cuse' = [cuse EXCEPT ![t].model = model[cuse[t].engine]]
    /\ cpc' = [cpc EXCEPT ![t] = "done"]
    /\ UNCHANGED <<model, loaded, chatMemory, engineObj, made>>
    /\ UNCHANGED ingestVars
    /\ UNCHANGED trackerVars
    /\ UNCHANGED libVars
    /\ UNCHANGED queryVars

EngineNext ==
    \E t \in Writers :
        \/ GetEngineTest(t)
        \/ \E ok \in BOOLEAN : GetEngineBuild(t, ok)
        \/ \E embeds \in BOOLEAN : GetEngineReturn(t, embeds)
        \/ QuizEngine(t)
        \/ EmbModelTest(t)
        \/ \E ok \in BOOLEAN : EmbModelBuild(t, ok)
        \/ EmbModelReturn(t)

EngineSpec == Init /\ [][EngineNext]_vars

(***************************************************************************)
(* Properties.                                                             *)
(***************************************************************************)
StagesOf(log) == [i \in 1 .. Len(log) |-> log[i].stage]
Rank(stage) ==
    CASE stage = "upload" -> 0 [] stage = "chunking" -> 1 [] stage = "embedding" -> 2
      [] stage = "storing" -> 3 [] stage = "indexed" -> 4 [] stage = "failed" -> 5
      [] OTHER -> -1
AllSpaces(t) == \A i \in 1 .. Len(t) : t[i] = " "
HasStage(rec) == rec # Absent /\ "stage" \in DOMAIN rec

\* C1: once start has run for a document, every path of the triggering code ends
\* with the job in a terminal stage: at the step with which a run that has
\* written to the tracker finishes, the stage of its job is failed or indexed.
C1_EveryPathEndsTerminal ==
    [][\A r \in Runs :
          (rpc[r] # "done" /\ rpc'[r] = "done" /\ rlog'[r] # <<>>)
              => jobs'[rin[r].doc].stage \in Terminal]_vars

C1_Witness ==
    \E r \in Runs :
        /\ rpc[r] = "done"
        /\ rres[r] = [kind |-> "not_called", err |-> <<"EngineInit">>]
        /\ StagesOf(rlog[r]) = <<"upload", "upload">>
        /\ jobs[rin[r].doc].stage = "upload"
        /\ jobs[rin[r].doc].progress = 5
        /\ \A q \in Runs : rpc[q] \in {"new", "done"}

\* C2: once the stage of a job is failed or indexed, no step other than a start
\* on that document id makes it a non-terminal stage.
C2_TerminalStaysTerminal ==
    [][\A d \in DocIds :
          (/\ HasStage(jobs[d])
           /\ jobs[d].stage \in Terminal
           /\ ~(\E r \in Runs : rpc[r] = "start" /\ rpc'[r] # "start" /\ rin[r].doc = d))
              => jobs'[d].stage \in Terminal]_vars

\* C3: the stages one run writes are in the order upload, chunking, embedding,
\* storing, indexed and never go back; failed is the only other stage, and once
\* written only failed follows; nothing follows indexed; and a run has written
\* chunking by the time it has split its text.
C3_StagesInOrder ==
    \A r \in Runs :
        LET log == rlog[r]
        IN  /\ \A i \in 1 .. Len(log) : Rank(log[i].stage) >= 0
            /\ \A i, j \in 1 .. Len(log) : i < j => Rank(log[i].stage) <= Rank(log[j].stage)
            /\ \A i \in 1 .. Len(log) : log[i].stage = "indexed" => i = Len(log)
            /\ (rtext[r] # None /\ ~AllSpaces(The(rtext[r])))
                   => \E i \in 1 .. Len(log) : log[i].stage = "chunking"

C3_Witness ==
    \E r, q \in Runs :
        /\ StagesOf(rlog[r]) = <<"upload", "upload", "chunking", "embedding", "storing", "indexed">>
        /\ StagesOf(rlog[q]) = <<"upload", "failed">>

\* C4: after start on a document id, whatever updates follow (progress negative,
\* above 100 or omitted), get returns a progress that is an integer in 0..100.
C4_ProgressInRange ==
    \A d \in started :
        LET g == GetSource(jobs, d)
        IN  "progress" \in DOMAIN g /\ g.progress \in 0 .. 100

C4_Witness ==
    \E d \in started :
        /\ jobs[d].stage = "upload" /\ jobs[d].progress = 100
        /\ \E e \in started : jobs[e].stage = "embedding" /\ jobs[e].progress = 0

\* C5: every dict get returns holds the record that the completed mutations, taken
\* in the order they released the lock, produce for some document id (the
\* placeholder when they produce none): never a half-applied update.
C5_SnapshotsAreSerial ==
    [][(snap' # snap \/ snapRec' # snapRec)
          => \E d \in DocIds :
                 snapRec' = (IF serial[d] = Absent THEN Placeholder(d) ELSE serial[d])]_vars

C5_Witness ==
    \E t \in Writers :
        /\ tpc[t] = "progress"
        /\ snap = OwnCopy
        /\ snapRec = serial[targ[t].id]
        /\ jobs[targ[t].id] # serial[targ[t].id]
        /\ HasStage(snapRec)
        /\ HasStage(jobs[targ[t].id])
        /\ snapRec.stage = "embedding"
        /\ jobs[targ[t].id].stage = "failed"

\* C6: the get that follows a start returns exactly the fresh record (stage upload,
\* progress 0, the initial message): nothing of the record the id had before.
C6_StartReplaces == last.op = "start" => GetSource(jobs, last.id) = FreshJob(last.id)

C6_Witness ==
    /\ last.op = "start"
    /\ HasStage(last.pre)
    /\ last.pre.stage = "failed"
    /\ last.pre.progress = 100
    /\ last.pre.message = <<"boom">>

\* C7: get on a document id without a record returns the placeholder (stage
\* unknown, progress 0) and leaves the tracker as it was.
C7_GetUnknownIsPure ==
    [][(last'.op = "get" /\ jobs[last'.id] = Absent)
          => jobs' = jobs /\ SnapValue' = Placeholder(last'.id)]_vars

C7_Witness ==
    /\ last.op = "get"
    /\ last.pre = Absent
    /\ jobs[last.id] = Absent
    /\ SnapValue = Placeholder(last.id)
    /\ \E d \in DocIds : jobs[d] # Absent

\* C8: assigning to a field of a dict returned by get leaves every stored job as
\* it was, and a start, update, fail or success leaves a dict already returned
\* as it was.
C8_SnapshotIndependent ==
    [][/\ last'.op = "mutate" => jobs' = jobs
       /\ (last'.op \in {"start", "write"} /\ snap # NoRef) => SnapValue' = SnapValue]_vars

C8_Witness ==
    /\ last.op = "mutate"
    /\ snap # NoRef
    /\ HasStage(SnapValue)
    /\ SnapValue.stage = "tampered"
    /\ HasStage(jobs[SnapValue.doc_id])
    /\ jobs[SnapValue.doc_id].stage = "failed"

\* C9: when the extracted text is empty or only whitespace, index_document returns
\* ok=false with chunks=0, the last stage the run wrote is failed, and the run has
\* called neither the embedding provider nor the vector store.
C9_EmptyTextFails ==
    \A r \in Runs :
        (rtext[r] # None /\ AllSpaces(The(rtext[r])))
            => /\ rres[r] = Return(FALSE, 0)
               /\ rpc[r] = "done"
               /\ rlog[r][Len(rlog[r])] =
                      [stage |-> "failed", progress |-> 100, message |-> NoTextMessage]
               /\ rcalls[r] = {}
               /\ ~(\E c \in store : c.run = r)

C9_Witness ==
    \E r \in Runs :
        /\ rtext[r] = Some(<<" ">>)
        /\ rres[r] = Return(FALSE, 0)
        /\ jobs[rin[r].doc].stage = "failed"
        /\ store # {}

\* C10: when computing the embeddings fails, the run writes failed with the error
\* detail, index_document raises that error, and the vector store holds no chunk
\* of the run (the store was not called).
C10_EmbedFailureAborts ==
    \A r \in Runs :
        "embed_raised" \in rcalls[r]
            => /\ rres[r].kind = "raise"
               /\ \E i \in 1 .. Len(rlog[r]) :
                      rlog[r][i] = [stage |-> "failed", progress |-> 100,
                                    message |-> EmbedFailedMessage(rres[r].err)]
               /\ "add" \notin rcalls[r]
               /\ ~(\E c \in store : c.run = r)

C10_Witness ==
    \E r \in Runs :
        /\ "embed_raised" \in rcalls[r]
        /\ rpc[r] = "done"
        /\ store # {}
\* C11: when persisting the chunks fails, on either backend, the run has written
\* failed and index_document raises a wrapped error whose text names the
\* document id.
C11_StoreFailureWrapped ==
    \A r \in Runs :
        "add_raised" \in rcalls[r]
            => /\ \E i \in 1 .. Len(rlog[r]) : rlog[r][i].stage = "failed"
               /\ rres[r].kind = "raise"
               /\ \E i \in 1 .. Len(rres[r].err) : rres[r].err[i] = rin[r].doc

C11_Witness ==
    \E r \in Runs :
        /\ "add_raised" \in rcalls[r]
        /\ backend = "chroma"
        /\ rres[r] = Raise(<<"StoreAdd">>)
        /\ jobs[rin[r].doc].stage = "failed"
        /\ rpc[r] = "done"
\* C12: when index_document succeeds for a document id for which an earlier run
\* had already succeeded, the store no longer holds a chunk of the earlier run.
C12_ReindexReplacesChunks ==
    [][\A q, r \in Runs :
          (/\ rpc[q] = "idx_success" /\ rpc'[q] = "done"
           /\ r # q
           /\ rpc[r] = "done"
           /\ rres[r].kind = "return"
           /\ rres[r].ok
           /\ rin[r].doc = rin[q].doc)
              => ~(\E c \in store' : c.run = r)]_vars

C12_Witness ==
    \E q, r \in Runs :
        /\ r # q
        /\ rin[r].doc = rin[q].doc
        /\ rpc[r] = "done" /\ rpc[q] = "done"
        /\ rres[r] = Return(TRUE, 1) /\ rres[q] = Return(TRUE, 1)
        /\ \E c \in store : c.run = r
        /\ \E c \in store : c.run = q
\* C13 (as stated): whatever the table held before and whatever the texts are, a
\* get_chunks_by_document that follows a successful add_chunks for the same
\* document id returns exactly the texts passed to add_chunks, in their order.
C13_RoundTripAlways ==
    [][(/\ svsLast.op = "add"
        /\ svsLast.res.kind = "return"
        /\ svsLast.nEmb = Len(svsLast.chunks)
        /\ svsLast'.op = "get"
        /\ svsLast'.id = svsLast.id
        /\ svsLast'.ok
        /\ svsLast'.limit = DefaultLimit)
           => svsLast'.out = svsLast.chunks]_vars

\* C13 (amended): when the document id is not blank and had no row before, the
\* texts are all non-blank, there are as many embeddings as texts and no more
\* texts than the clamped limit, a get_chunks_by_document that follows the
\* successful add_chunks returns exactly those texts, in their order.
C13_RoundTripFresh ==
    [][(/\ svsLast.op = "add"
        /\ svsLast.res.kind = "return"
        /\ svsLast.nEmb = Len(svsLast.chunks)
        /\ svsLast.fresh
        /\ Strip(svsLast.id) # <<>>
        /\ \A i \in 1 .. Len(svsLast.chunks) : Strip(svsLast.chunks[i]) # <<>>
        /\ svsLast'.op = "get"
        /\ svsLast'.afterAdd
        /\ svsLast'.ok
        /\ Len(svsLast.chunks) <= ClampLimit(svsLast'.limit))
           => svsLast'.out = svsLast.chunks]_vars

C13_Witness ==
    /\ svsLast.op = "get"
    /\ svsLast.afterAdd
    /\ svsLast.ok
    /\ svsLast.limit = DefaultLimit
    /\ svsLast.out = << <<"y">>, <<"x">> >>
    /\ Len(table) = 2
    /\ table[1].chunk_index = 0
    /\ table[2].chunk_index = 1
\* the stored chunks that match the filters of a query, as the backend reads them
MatchingChunks(bk, chunks, a) ==
    IF bk = "chroma" THEN SelectSeq(chunks, LAMBDA c : WhereMatches(ChromaMeta(c), a))
    ELSE SelectSeq(chunks,
                   LAMBDA c : /\ PayloadSubject(a.subject_id) # None
                                    => c.subject_id = PayloadSubject(a.subject_id)
                              /\ Keep(Enriched(SvsMeta(c), DocumentRows), a))
ClampedTopK(bk, top_k) == Max(1, Min(top_k, IF bk = "chroma" THEN ChromaMaxK ELSE SvsMaxK))

\* C14: a retrieve that returns (its collaborators working) returns exactly
\* min(c, m) results, c being top_k clamped to [1,20] on the embedded store and to
\* [1,50] on the relational store, m the number of stored chunks matching the
\* filters.
C14_ResultCount ==
    (qLast.op = "retrieve" /\ qLast.res.kind = "return" /\ qLast.lookupOk)
        => Len(qLast.res.outs) =
               Min(ClampedTopK(backend, qLast.args.top_k),
                   Len(MatchingChunks(backend, corpus, qLast.args)))

C14_Witness ==
    /\ qLast.op = "retrieve"
    /\ qLast.args = [NoFilter EXCEPT !.top_k = 0]
    /\ Len(corpus) = 3
    /\ qLast.res = Returned(<<>>)

\* C15: on both backends retrieve with subject_id = S (S one of the two subjects in
\* the store) returns only results whose subject_id is S, whatever other filter
\* arguments (subject_ids among them) are passed with it.
C15_SubjectFilter ==
    (/\ qLast.op = "retrieve"
     /\ qLast.res.kind = "return"
     /\ qLast.args.subject_id \in {Some("A"), Some("B")})
        => \A i \in 1 .. Len(qLast.res.outs) :
               qLast.res.outs[i].metadata.subject_id = qLast.args.subject_id

C15_Witness ==
    /\ qLast.op = "retrieve"
    /\ backend = "chroma"
    /\ qLast.args = [NoFilter EXCEPT !.subject_id = Some("A"), !.subject_ids = {"B"}]
    /\ qLast.res.kind = "return"
    /\ Len(qLast.res.outs) = 2
    /\ \A i \in 1 .. 2 : qLast.res.outs[i].metadata.subject_id = Some("B")
\* a result's metadata satisfies every metadata filter the caller declared
SatisfiesDeclared(m, a) ==
    /\ a.author # None => m.author = a.author
    /\ a.tags # {} => m.tags \cap a.tags # {}
    /\ a.time_from # None => (m.created_at # None /\ The(m.created_at) >= The(a.time_from))
    /\ a.time_to # None => (m.created_at # None /\ The(m.created_at) <= The(a.time_to))
    /\ a.source # None => m.source = a.source
    /\ a.file_type # None
           => (m.file_ext # None /\ Lower(The(m.file_ext)) = Lower(The(a.file_type)))
    /\ a.subject_ids # {} => (m.subject_id # None /\ The(m.subject_id) \in a.subject_ids)

\* C16: on the relational backend every result retrieve returns satisfies each
\* metadata filter the caller declared (author, tags, time range, source, file
\* extension, subject_ids), also when the enrichment lookup fails and when a result
\* has no created_at value.
C16_DeclaredFiltersHold ==
    (backend = "supabase" /\ qLast.op = "retrieve" /\ qLast.res.kind = "return")
        => \A i \in 1 .. Len(qLast.res.outs) :
               SatisfiesDeclared(qLast.res.outs[i].metadata, qLast.args)

C16_Witness ==
    /\ backend = "supabase"
    /\ qLast.op = "retrieve"
    /\ qLast.lookupOk
    /\ qLast.args = [NoFilter EXCEPT !.time_from = Some(2025)]
    /\ qLast.res.kind = "return"
    /\ \E i \in 1 .. Len(qLast.res.outs) :
           /\ qLast.res.outs[i].text = "y"
           /\ qLast.res.outs[i].metadata.created_at = None
\* C17: on the relational backend, once the similarity search has answered, a
\* failing document lookup or a failing re-ranking never makes retrieve raise: it
\* returns, every result carries the citation built from its own metadata (title,
\* url, page, snippet), and after a failed lookup the results are the results of
\* the similarity search, in their order, cut by outs[:top_k].
C17_BestEffortStepsNeverRaise ==
    (backend = "supabase" /\ qLast.op = "retrieve" /\ qLast.searchOk)
        => /\ qLast.res.kind = "return"
           /\ \A i \in 1 .. Len(qLast.res.outs) :
                  qLast.res.outs[i].citation
                      = Citation(qLast.res.outs[i].metadata, qLast.res.outs[i].text)
           /\ ~qLast.lookupOk
                  => [i \in 1 .. Len(qLast.res.outs) |->
                         [text |-> qLast.res.outs[i].text,
                          metadata |-> qLast.res.outs[i].metadata]]
                     = PySlice(SvsQuery(corpus, qLast.args.top_k, qLast.args.subject_id),
                               qLast.args.top_k)

C17_Witness ==
    /\ backend = "supabase"
    /\ qLast.op = "retrieve"
    /\ qLast.searchOk /\ ~qLast.lookupOk /\ qLast.rerank
    /\ qLast.args = [NoFilter EXCEPT !.author = Some("ann")]
    /\ qLast.res.kind = "return"
    /\ Len(qLast.res.outs) = 3
    /\ qLast.res.outs[1].citation
           = [title |-> Some(<<"g">>), url |-> None, page |-> None, snippet |-> "y"]
\* C18: answer never raises, whatever the provider: when the provider is none or
\* unknown, its key is missing or the provider call fails, the result is the
\* preface followed by the first two contexts in their given order; and two
\* fallback answers to identical contexts are identical texts.
C18_AnswerFallsBack ==
    [][qLast'.op = "answer"
          => LET c == qLast'
                 two == IF Len(c.contexts) = 0 THEN <<>>
                        ELSE IF Len(c.contexts) = 1 THEN <<c.contexts[1]>>
                        ELSE <<c.contexts[1], "\n\n", c.contexts[2]>>
                 expected == <<"(Khong co LLM cuc bo; tra loi theo ngu canh gan nhat)",
                               "\n\n">> \o two
                 degraded(x) ==
                     \/ x.provider \notin {Some("OpenAI"), Some("gemini"), Some("ollama")}
                     \/ (x.provider \in {Some("OpenAI"), Some("gemini")} /\ ~x.hasKey)
                     \/ x.reply.kind = "raise"
             IN  /\ c.res.kind = "return"
                 /\ degraded(c) => c.res.text = expected
                 /\ (/\ qLast.op = "answer"
                     /\ degraded(qLast) /\ degraded(c)
                     /\ qLast.contexts = c.contexts)
                        => c.res.text = qLast.res.text]_vars

C18_Witness ==
    /\ qLast.op = "answer"
    /\ qLast.provider = Some("OpenAI")
    /\ qLast.hasKey
    /\ qLast.reply.kind = "raise"
    /\ qLast.contexts = <<"y", "x", "y">>
    /\ qLast.res
           = [kind |-> "return",
              text |-> <<"(Khong co LLM cuc bo; tra loi theo ngu canh gan nhat)", "\n\n",
                         "y", "\n\n", "x">>]
\* C19: when a remote embedding provider is selected and its key is missing,
\* _embed_texts raises the configuration error of that provider without calling
\* any model (neither the provider nor the local one), the run writes failed and
\* raises, and the vector store is not called and holds no chunk of the run.
C19_MissingKeyFailsFast ==
    \A r \in Runs :
        "embed_nokey" \in rcalls[r]
            => /\ rcalls[r] \cap {"openai", "gemini", "local"} = {}
               /\ rres[r] \in
                      {Raise(<<"OPENAI_API_KEY is required for OpenAI embeddings">>),
                       Raise(<<"GEMINI_API_KEY is required for Gemini embeddings">>)}
               /\ \E i \in 1 .. Len(rlog[r]) : rlog[r][i].stage = "failed"
               /\ (rpc[r] = "done" => rlog[r][Len(rlog[r])].stage = "failed")
               /\ "add" \notin rcalls[r]
               /\ ~(\E c \in store : c.run = r)

C19_Witness ==
    \E r \in Runs :
        /\ "embed_nokey" \in rcalls[r]
        /\ rpc[r] = "done"
        /\ rres[r] = Raise(<<"GEMINI_API_KEY is required for Gemini embeddings">>)
        /\ jobs[rin[r].doc].stage = "failed"
\* C20: text extraction never raises, whatever the bytes and the file name: no run
\* of index_document ends with the error of a parser, a file nothing can be read
\* from ends in the "no text extracted" failure result.
C20_ExtractionNeverRaises ==
    \A r \in Runs : ~(rres[r].kind = "raise" /\ rres[r].err = <<"Extract">>)

C20_Witness ==
    \E r \in Runs :
        /\ rpc[r] = "done"
        /\ rres[r] = Raise(<<"Extract">>)
        /\ \A i \in 1 .. Len(rlog[r]) : rlog[r][i].message # NoTextMessage
        /\ rlog[r][Len(rlog[r])].stage = "failed"
\* C26: a run writes the stage indexed only after its store write has completed
\* without error, and the N of the {ok: true, chunks: N} it returns is the number
\* of chunk records the run has written to the store, on both backends.
C26_IndexedAfterStoreWrite ==
    \A r \in Runs :
        /\ (\E i \in 1 .. Len(rlog[r]) : rlog[r][i].stage = "indexed")
               => ("add" \in rcalls[r] /\ "add_raised" \notin rcalls[r])
        /\ (rres[r].kind = "return" /\ rres[r].ok)
               => /\ rlog[r][Len(rlog[r])].stage = "indexed"
                  /\ rres[r].chunks = Cardinality({c \in store : c.run = r})

C26_Witness ==
    \E r, q \in Runs :
        /\ r # q
        /\ rres[r] = Return(TRUE, 1)
        /\ Cardinality({c \in store : c.run = r}) = 1
        /\ "add_raised" \in rcalls[q]
        /\ rpc[q] = "done"

\* C27: a run writes the stage storing only on the relational backend and only
\* after its embeddings were computed; on the embedded backend the stage a run
\* writes after embedding is indexed or failed.
C27_StoringOnlyRelational ==
    \A r \in Runs :
        \A i \in 1 .. Len(rlog[r]) :
            /\ rlog[r][i].stage = "storing"
                   => /\ backend = "supabase"
                      /\ "embed" \in rcalls[r] /\ "embed_raised" \notin rcalls[r]
                      /\ i > 1 /\ rlog[r][i - 1].stage = "embedding"
            /\ (backend = "chroma" /\ rlog[r][i].stage = "embedding" /\ i < Len(rlog[r]))
                   => rlog[r][i + 1].stage \in {"indexed", "failed"}

C27_Witness ==
    \E r \in Runs :
        /\ backend = "chroma"
        /\ StagesOf(rlog[r]) = <<"upload", "upload", "chunking", "embedding", "indexed">>
        /\ Cardinality({c \in store : c.run = r}) = 1

\* C28: the progress values one run writes never decrease, and an entry the run
\* writes has progress 100 exactly when its stage is failed or indexed.
C28_ProgressMonotone ==
    \A r \in Runs :
        /\ \A i, j \in 1 .. Len(rlog[r]) :
               i < j => rlog[r][i].progress <= rlog[r][j].progress
        /\ \A i \in 1 .. Len(rlog[r]) :
               rlog[r][i].progress = 100 <=> rlog[r][i].stage \in Terminal

C28_Witness ==
    \E r \in Runs :
        /\ backend = "supabase"
        /\ [i \in 1 .. Len(rlog[r]) |-> rlog[r][i].progress] = <<0, 5, 10, 40, 70, 100>>
        /\ rlog[r][6].stage = "indexed"
\* C29: after any sequence of tracker operations (update, fail and success on a
\* document id that was never started among them), the record get returns for a
\* document id holds a stage of the closed set and a progress value.
C29_GetHasStageAndProgress ==
    \A d \in DocIds :
        LET g == GetSource(jobs, d)
        IN  /\ "stage" \in DOMAIN g
            /\ g.stage \in Stages
            /\ "progress" \in DOMAIN g

C29_Witness ==
    \E d \in DocIds :
        /\ d \notin started
        /\ last = [op |-> "get", id |-> d, pre |-> [doc_id |-> d, progress |-> 0]]
        /\ snapRec = [doc_id |-> d, progress |-> 0]
\* C25: when re-ranking is enabled and retrieve has more than one candidate, the
\* list it returns is in descending order of cross-encoder score: no result comes
\* after one with a lower score.
C25_RerankedByScore ==
    (qLast.op = "retrieve" /\ qLast.res.kind = "return" /\ qLast.rerank)
        => \A i, j \in 1 .. Len(qLast.res.outs) :
               i < j => CrossScore(qLast.res.outs[i].text) >= CrossScore(qLast.res.outs[j].text)

C25_Witness ==
    /\ qLast.op = "retrieve"
    /\ qLast.rerank
    /\ qLast.args = [NoFilter EXCEPT !.top_k = 25]
    /\ qLast.res.kind = "return"
    /\ [i \in 1 .. Len(qLast.res.outs) |-> qLast.res.outs[i].text] = <<"x", "z", "y">>
\* C22: every chunk the splitter returns is at most chunk_size long (chunk_size
\* after its floor of 200), except a chunk that is one sentence itself longer
\* than chunk_size; for every overlap, chunks that start with the overlap of the
\* chunk before included.
C22_ChunksWithinSize ==
    qLast.op = "split"
        => LET size == Max(MinChunkSize, qLast.chunk_size)
           IN  \A i \in 1 .. Len(qLast.chunks) :
                   \/ Len(qLast.chunks[i]) <= size
                   \/ \E k \in 1 .. Len(qLast.lens) :
                          /\ qLast.lens[k] > size
                          /\ qLast.chunks[i] = TextOf(<<qLast.lens[k]>>)

C22_Witness ==
    /\ qLast.op = "split"
    /\ qLast.lens = <<190, 190>>
    /\ qLast.chunk_size = 200
    /\ qLast.chunk_overlap = 50
    /\ Len(qLast.chunks) = 2
    /\ Len(qLast.chunks[2]) = 241

\* C23: for 0 < overlap < chunk_size / 2 and a text that gives more than one
\* chunk, each chunk after the first begins with exactly the last overlap
\* characters of the chunk before it.
C23_OverlapShared ==
    (/\ qLast.op = "split"
     /\ 0 < qLast.chunk_overlap
     /\ 2 * qLast.chunk_overlap < Max(MinChunkSize, qLast.chunk_size)
     /\ Len(qLast.chunks) > 1)
        => \A i \in 2 .. Len(qLast.chunks) :
               /\ Len(qLast.chunks[i - 1]) >= qLast.chunk_overlap
               /\ Len(qLast.chunks[i]) >= qLast.chunk_overlap
               /\ SubSeq(qLast.chunks[i], 1, qLast.chunk_overlap)
                      = SubSeq(qLast.chunks[i - 1],
                               Len(qLast.chunks[i - 1]) - qLast.chunk_overlap + 1,
                               Len(qLast.chunks[i - 1]))

C23_Witness ==
    /\ qLast.op = "split"
    /\ qLast.lens = <<190, 190>>
    /\ qLast.chunk_size = 200
    /\ qLast.chunk_overlap = 51
    /\ Len(qLast.chunks) = 2
    /\ qLast.chunks[1][140] = " "
    /\ SubSeq(qLast.chunks[2], 1, 4) = <<"a", "a", "a", "a">>
    /\ Len(qLast.chunks[2]) = 241

\* C30: on a thread with memory enabled, a /rag/stream request that is answered
\* appends exactly one entry to the thread's memory, the entry holds the query of
\* the request and the top snippet retrieved for that request (the empty string
\* when nothing was retrieved), and at most the last 4 remembered snippets stand
\* in front of the contexts of the request.
C30_MemoryHoldsTopRetrieved ==
    [][(qLast'.op = "stream" /\ qLast'.thread_id \in {Some(t) : t \in ThreadIds}
            /\ qLast'.memory)
        => LET t == The(qLast'.thread_id)
               top == IF qLast'.results = <<>> THEN ""
                      ELSE ContextOf(qLast'.results[1])
           IN  /\ chatMemory'[t] = Some(Append(qLast'.history,
                                               [query |-> qLast'.query, snippet |-> top]))
               /\ Len(qLast'.contexts) - Len(qLast'.results) <= HistoryLimit]_vars

\* a request on a thread that remembers five snippets: four of them stand in
\* front of its contexts, and its entry holds the oldest of those four
C30_Witness ==
    /\ qLast.op = "stream"
    /\ qLast.thread_id = Some("t")
    /\ qLast.memory
    /\ Len(qLast.history) = 5
    /\ \A i \in 1 .. 5 : qLast.history[i].snippet # ""
    /\ qLast.results # <<>>
    /\ Len(qLast.contexts) = Len(qLast.results) + HistoryLimit
    /\ The(chatMemory["t"])[6].snippet = qLast.history[2].snippet

\* C21: the process constructs exactly one engine and exactly one local embedding
\* model, also when the first uses are concurrent, and every caller, the quiz
\* router included, has been handed that same engine and that same model.
C21_OneEngineOneModel ==
    /\ Cardinality(EnginesBuilt) <= 1
    /\ Cardinality(loaded) <= 1
    /\ \A t \in Writers, u \in Writers :
           (cpc[t] = "done" /\ cpc[u] = "done")
               => /\ cuse[t].engine = cuse[u].engine
                  /\ (cuse[t].model # None /\ cuse[u].model # None)
                         => cuse[t].model = cuse[u].model

\* two threads have run get_engine and _emb_model concurrently for the first time:
\* each constructed an engine and a model, and they hold different ones
C21_Witness ==
    /\ \A t \in Writers : cpc[t] = "done" /\ cuse[t].engine \in made
    /\ Cardinality(made) = 2
    /\ Cardinality(loaded) = 2
    /\ \E t \in Writers, u \in Writers : cuse[t].engine # cuse[u].engine
    /\ \E t \in Writers, u \in Writers :
           cuse[t].model # None /\ cuse[u].model # None /\ cuse[t].model # cuse[u].model

\* the canonical text form of a UUID: 36 characters, hyphens at 9, 14, 19 and 24,
\* lower-case hex digits elsewhere
IsCanonicalUuid(s) ==
    /\ Len(s) = 36
    /\ \A i \in 1 .. 36 : IF i \in {9, 14, 19, 24} THEN s[i] = "-" ELSE s[i] \in HexDigits

\* C24: in every row add_chunks sends to the relational store, and so in every row
\* of the table, user_id is null or the canonical text of a UUID; a user_id that is
\* missing, empty or not parseable as a UUID is sent as null.
C24_UserIdCanonicalOrNull ==
    /\ \A i \in 1 .. Len(table) :
           table[i].user_id = None \/ IsCanonicalUuid(The(table[i].user_id))
    /\ svsLast.op = "add"
           => \A i \in 1 .. Len(svsLast.sent) :
                  LET sent == svsLast.sent[i].user_id
                  IN  /\ sent = None \/ IsCanonicalUuid(The(sent))
                      /\ svsLast.user_id \in {None, Some(<<>>)}
                                                 \cup {Some(u) : u \in MalformedIds}
                             => sent = None

\* add_chunks with a braced upper-case UUID stored its canonical text, and the
\* table also holds a row of a call whose user_id was malformed or missing
C24_Witness ==
    /\ svsLast.op = "add"
    /\ svsLast.user_id = Some(UpperBracedId)
    /\ svsLast.res.kind = "return"
    /\ Len(table) = 2
    /\ table[2].user_id = Some(CanonId)
    /\ table[1].user_id = None

====
